---- MODULE Spec2Model ----
(***************************************************************************)
(* Atomic swaps on zkSync: the transaction builder (utils.ts), the two     *)
(* parties' state machines (provider.ts, client.ts, abstract-party.ts),    *)
(* the Swap handle, and the ledger the signed batch is submitted to.       *)
(***************************************************************************)
EXTENDS Integers, Sequences, FiniteSets, TLC

VARIABLES
    terms,      \* the SwapData handed to both parties for the attempt
    quote,      \* the ledger's fee quotes: quote[type][token]
    now,        \* ledger time (block timestamp)
    accounts,   \* ledger accounts: address -> [id, nonce, pubKeyHash, balances]
    executed,   \* hashes of the escrow transactions executed with success
    prov,       \* the SwapProvider object
    cli,        \* the SwapClient object
    swap,       \* the Swap handle returned by SwapClient.signSwap
    chan,       \* the latest message of each kind the parties have exchanged
    faults,     \* how many ledger calls have failed so far
    sim,        \* the simulated nonce-once/validity-window ledger of the batch tests
    calls       \* the calls of a party that passed their guard and await the ledger

vars == <<terms, quote, now, accounts, executed, prov, cli, swap, chan, faults, sim, calls>>

(***************************************************************************)
(* Bounds and program constants                                            *)
(***************************************************************************)
MAX_TIMESTAMP == 3
MaxFee == 1
MaxAmount == 2
MaxNonce == 1
TOTAL_TRANSACTIONS == 5
PROVIDER_MUSIG_POSITION == 0
CLIENT_MUSIG_POSITION == 1

SYNC_PREFIX == "sync:"
DEFAULT_PUBKEY_HASH == "sync:0000000000000000000000000000000000000000"

SELL == "ETH"
BUY == "DAI"
Tokens == {SELL, BUY}
FeeTypes == {"Transfer", "ChangePubKey", "Withdraw"}

\* ethers.utils.computeAddress: the address of an externally owned key
CLIENT == "0xclient"
PROVIDER == "0xprovider"
NoAddr == ""
NoSig == [pubKey |-> "", signature |-> [message |-> "", key |-> "", whole |-> FALSE]]

Times == 0..MAX_TIMESTAMP

\* a JS array: zero-indexed
Array(s) == [i \in 0..(Len(s) - 1) |-> s[i + 1]]

Throw(msg) == [error |-> msg]
IsError(v) == DOMAIN v = {"error"}

(***************************************************************************)
(* MuSig key aggregation and the CREATE2 escrow address                    *)
(***************************************************************************)
\* MusigSigner.computePubkey: the aggregate of the ordered key pair
computePubkey(pubkeys) == "musig(" \o pubkeys[1] \o "," \o pubkeys[2] \o ")"

\* zksync-crypto pubKeyHash, rendered with the sync: prefix by getTransactions
pubKeyHash(pubkey) == "pkh(" \o pubkey \o ")"

\* zksync.utils.getCREATE2AddressAndSalt
getCREATE2AddressAndSalt(pkh, create2) ==
    LET salt == "keccak(" \o create2.salt \o "," \o pkh \o ")" IN
    [salt |-> salt,
     address |-> "create2(" \o create2.creator \o "," \o salt \o "," \o create2.hash \o ")"]

PubKeys == <<"pkP", "pkC">>
AggPubkey == computePubkey(PubKeys)
AggPubKeyHash == pubKeyHash(AggPubkey)

(***************************************************************************)
(* utils.ts: getTransactions, one operator per slot of the returned array  *)
(***************************************************************************)
getTransactionFee(q, type, token) == q[type][token]

Fees(q, swapData) ==
    [transferSold   |-> getTransactionFee(q, "Transfer", swapData.sell.token),
     transferBought |-> getTransactionFee(q, "Transfer", swapData.buy.token),
     changePubKey   |-> getTransactionFee(q, "ChangePubKey", swapData.sell.token),
     withdraw       |-> getTransactionFee(q, "Withdraw", swapData.sell.token)]

Slot0(swapData, swapAccount, pkh, fees) ==
    [type |-> "ChangePubKey",
     accountId |-> swapAccount.id,
     from |-> swapAccount.address,
     to |-> NoAddr,
     ethAddress |-> NoAddr,
     newPkHash |-> SYNC_PREFIX \o pkh,
     token |-> swapData.sell.token,
     amount |-> 0,
     fee |-> fees.changePubKey,
     nonce |-> swapAccount.committed.nonce,
     validFrom |-> 0,
     validUntil |-> MAX_TIMESTAMP,
     ethAuthData |-> [type |-> "CREATE2",
                      creatorAddress |-> swapData.create2.creator,
                      saltArg |-> swapData.create2.salt,
                      codeHash |-> swapData.create2.hash],
     signature |-> NoSig]

Transfer(swapAccount, token, to, amount, fee, nonce, validFrom, validUntil) ==
    [type |-> "Transfer",
     accountId |-> swapAccount.id,
     from |-> swapAccount.address,
     to |-> to,
     ethAddress |-> NoAddr,
     newPkHash |-> <<>>,
     token |-> token,
     amount |-> amount,
     fee |-> fee,
     nonce |-> nonce,
     validFrom |-> validFrom,
     validUntil |-> validUntil,
     ethAuthData |-> [type |-> "none"],
     signature |-> NoSig]

Slot1(swapData, clientAddress, swapAccount, fees) ==
    Transfer(swapAccount, swapData.buy.token, clientAddress, swapData.buy.amount,
             fees.transferBought, swapAccount.committed.nonce + 1, 0, swapData.timeout)

Slot2AlwaysTransfer(swapData, providerAddress, swapAccount, fees) ==
    Transfer(swapAccount, swapData.sell.token, providerAddress, swapData.sell.amount,
             fees.transferSold, swapAccount.committed.nonce + 2, 0, MAX_TIMESTAMP)

Slot2(swapData, providerAddress, swapAccount, fees) ==
    IF swapData.withdrawType = "L1"
    THEN [Transfer(swapAccount, swapData.sell.token, NoAddr, swapData.sell.amount,
                   fees.withdraw, swapAccount.committed.nonce + 2, 0, MAX_TIMESTAMP)
            EXCEPT !.type = "Withdraw", !.ethAddress = providerAddress]
    ELSE Transfer(swapAccount, swapData.sell.token, providerAddress, swapData.sell.amount,
                  fees.transferSold, swapAccount.committed.nonce + 2, 0, MAX_TIMESTAMP)

Slot3WrongNonce(swapData, clientAddress, swapAccount, fees) ==
    Transfer(swapAccount, swapData.sell.token, clientAddress, swapData.sell.amount,
             fees.transferSold, swapAccount.committed.nonce + 3,
             swapData.timeout + 1, MAX_TIMESTAMP)

\* slot 3 valid from time 0
Slot3NoDelay(swapData, clientAddress, swapAccount, fees) ==
    Transfer(swapAccount, swapData.sell.token, clientAddress, swapData.sell.amount,
             fees.transferSold, swapAccount.committed.nonce + 1, 0, MAX_TIMESTAMP)

Slot3(swapData, clientAddress, swapAccount, fees) ==
    Transfer(swapAccount, swapData.sell.token, clientAddress, swapData.sell.amount,
             fees.transferSold, swapAccount.committed.nonce + 1,
             swapData.timeout + 1, MAX_TIMESTAMP)

Slot4WrongNonce(swapData, providerAddress, swapAccount, fees) ==
    Transfer(swapAccount, swapData.buy.token, providerAddress, swapData.buy.amount,
             fees.transferBought, swapAccount.committed.nonce + 3,
             swapData.timeout + 1, MAX_TIMESTAMP)

Slot4(swapData, providerAddress, swapAccount, fees) ==
    Transfer(swapAccount, swapData.buy.token, providerAddress, swapData.buy.amount,
             fees.transferBought, swapAccount.committed.nonce + 2,
             swapData.timeout + 1, MAX_TIMESTAMP)

\* swapAccount is the result of syncProvider.getState(swapAddress), q the fee quotes
getTransactions(swapData, clientAddress, providerAddress, swapAccount, pkh, q) ==
    IF swapAccount.id = 0
    THEN Throw("Swap Account ID not set - can't sign transactions")
    ELSE LET fees == Fees(q, swapData) IN
         Array(<<Slot0(swapData, swapAccount, pkh, fees),
                 Slot1(swapData, clientAddress, swapAccount, fees),
                 Slot2(swapData, providerAddress, swapAccount, fees),
                 Slot3(swapData, clientAddress, swapAccount, fees),
                 Slot4(swapData, providerAddress, swapAccount, fees)>>)

(***************************************************************************)
(* Ledger accounts                                                         *)
(***************************************************************************)
Balances(s, b) == [t \in Tokens |-> IF t = SELL THEN s ELSE b]

Account(addr, id, nonce, pkh, bal) ==
    [address |-> addr, id |-> id,
     committed |-> [nonce |-> nonce, pubKeyHash |-> pkh, balances |-> bal]]

\* syncProvider.getState
getState(accts, addr) == accts[addr]

(***************************************************************************)
(* Inputs                                                                  *)
(***************************************************************************)
Create2Data == [creator |-> "0xdeployer", salt |-> "s1", hash |-> "rescuer"]

SwapDatas ==
    {[sell |-> [token |-> SELL, amount |-> s],
      buy |-> [token |-> BUY, amount |-> b],
      timeout |-> t,
      withdrawType |-> w,
      create2 |-> Create2Data] :
        s \in {1, MaxAmount}, b \in {1, MaxAmount}, t \in Times, w \in {"L1", "L2"}}

\* quotes in the sold token vary per type; the bought token has its own transfer fee
Quotes ==
    {[ty \in FeeTypes |->
        [tk \in Tokens |->
            IF tk = SELL
            THEN (IF ty = "Transfer" THEN ts ELSE IF ty = "ChangePubKey" THEN cpk ELSE wd)
            ELSE tb]] :
        ts \in 0..MaxFee, tb \in 0..MaxFee, cpk \in 0..MaxFee, wd \in 0..MaxFee}

EscrowOf(swapData) == getCREATE2AddressAndSalt(AggPubKeyHash, swapData.create2).address
ESCROW == EscrowOf([create2 |-> Create2Data])
\* the same key's account on L1 (target of Withdraw, source of an L1 deposit)
L1(addr) == "L1:" \o addr
Addresses == {CLIENT, PROVIDER, ESCROW, L1(CLIENT), L1(PROVIDER)}

\* the calls that await the ledger between their guard and their assignment to
\* state: the operation and its deposit type
OverlapCalls ==
    {<<"Provider_signSwap", "">>, <<"Provider_checkSwap", "">>,
     <<"Provider_depositFunds", "L1">>, <<"Provider_depositFunds", "L2">>,
     <<"Provider_finalizeSwap", "">>,
     <<"Client_depositFunds", "L1">>, <<"Client_depositFunds", "L2">>}
OverlapOps == {c[1]: c \in OverlapCalls}
\* race: a finalizeSwap of the provider past its selection of the batch, and a
\* Swap.finalize of the client past its reading of the signing key
IdleRace == [finalizeSwap |-> [on |-> FALSE, batch |-> <<>>],
             finalize |-> [stage |-> "idle"]]
IdleCalls == [flying |-> [c \in OverlapCalls |-> 0], acted |-> [op \in OverlapOps |-> 0],
              race |-> IdleRace]

NoBatch == Throw("no batch")
IdleParty == [state |-> "empty"]
IdleSim == [batch |-> NoBatch, used |-> {}, done |-> {}, early1 |-> FALSE, late3 |-> FALSE]

(***************************************************************************)
(* The batch on a simulated ledger that executes each (account, nonce) at  *)
(* most once and accepts a transaction only inside its validity window     *)
(***************************************************************************)
InWindow(tx, t) == tx.validFrom <= t /\ t <= tx.validUntil

SimAccepts(tx) == <<tx.from, tx.nonce>> \notin sim.used /\ InWindow(tx, now)

InitBatch ==
    /\ terms \in SwapDatas
    /\ quote \in Quotes
    /\ now = 0
    /\ \E n \in {0, MaxNonce}:
         accounts = [a \in Addresses |->
            Account(a, 0, IF a = ESCROW THEN n ELSE 0, DEFAULT_PUBKEY_HASH, Balances(0, 0))]
    /\ executed = {}
    /\ prov = IdleParty
    /\ cli = IdleParty
    /\ swap = NoBatch
    /\ chan = NoBatch
    /\ faults = 0
    /\ sim = IdleSim
    /\ calls = IdleCalls

\* the first transfer to an address makes the ledger assign it an account id
SimCreateAccount ==
    /\ accounts[ESCROW].id = 0
    /\ accounts' = [accounts EXCEPT ![ESCROW].id = 1]
    /\ UNCHANGED <<terms, quote, now, executed, prov, cli, swap, chan, faults, sim, calls>>

SimBuild ==
    /\ IsError(sim.batch)
    /\ sim' = [sim EXCEPT !.batch = getTransactions(terms, CLIENT, PROVIDER,
                                        getState(accounts, ESCROW), AggPubKeyHash, quote)]
    /\ UNCHANGED <<terms, quote, now, accounts, executed, prov, cli, swap, chan, faults, calls>>

SimSubmit(i) ==
    /\ ~IsError(sim.batch)
    /\ LET tx == sim.batch[i] IN
       sim' = [sim EXCEPT
                 !.used = IF SimAccepts(tx) THEN @ \cup {<<tx.from, tx.nonce>>} ELSE @,
                 !.done = IF SimAccepts(tx) THEN @ \cup {i} ELSE @,
                 !.early1 = @ \/ (i = 1 /\ now <= terms.timeout),
                 !.late3 = @ \/ (i = 3 /\ now > terms.timeout)]
    /\ UNCHANGED <<terms, quote, now, accounts, executed, prov, cli, swap, chan, faults, calls>>

SimTick ==
    /\ ~IsError(sim.batch)
    /\ now < MAX_TIMESTAMP
    /\ now' = now + 1
    /\ UNCHANGED <<terms, quote, accounts, executed, prov, cli, swap, chan, faults, sim, calls>>

NextBatch ==
    \/ SimCreateAccount
    \/ SimBuild
    \/ \E i \in 0..(TOTAL_TRANSACTIONS - 1): SimSubmit(i)
    \/ SimTick

SpecBatch == InitBatch /\ [][NextBatch]_vars

(***************************************************************************)
(* signer.ts: MusigSigner. A session is identified by the seeds of the two *)
(* parties' precommitments; round counts the protocol rounds completed.    *)
(***************************************************************************)
Undefined == [undefined |-> TRUE]
IsUndefined(v) == DOMAIN v = {"undefined"}
\* an unset field that holds a string once set
UndefinedString == "undefined"

Slots == 0..(TOTAL_TRANSACTIONS - 1)

\* new MusigSigner(pubkeys, position, N)
MusigSigner(pubkeys, position, seed) ==
    [pubkeys |-> pubkeys, position |-> position, seed |-> seed,
     round |-> 0, peer |-> 0]

\* computePrecommitments: one per slot, from fresh randomness
computePrecommitments(signer) ==
    [i \in Slots |-> [pre |-> signer.position, seed |-> signer.seed, slot |-> i]]

\* transpose of an array of rows
transpose(matrix) ==
    [index \in DOMAIN matrix[0] |-> [row \in DOMAIN matrix |-> matrix[row][index]]]

\* receivePrecommitments: the peer's precommitment per slot fixes the session
PeerOf(signer, pairs) == pairs[0][1 - signer.position].seed

PrecommitmentsOk(signer, pairs) ==
    /\ signer.round = 1
    /\ \A i \in Slots:
         /\ pairs[i][signer.position] = computePrecommitments(signer)[i]
         /\ pairs[i][1 - signer.position].pre = 1 - signer.position
         /\ pairs[i][1 - signer.position].slot = i
         /\ pairs[i][1 - signer.position].seed = PeerOf(signer, pairs)

Commitments(signer, peer) ==
    [i \in Slots |-> [com |-> signer.position, seed |-> signer.seed,
                      peer |-> peer, slot |-> i]]

\* receiveCommitments: each commitment must open the precommitment received before
CommitmentsOk(signer, pairs) ==
    /\ signer.round = 2
    /\ \A i \in Slots:
         /\ pairs[i][signer.position] = Commitments(signer, signer.peer)[i]
         /\ pairs[i][1 - signer.position].com = 1 - signer.position
         /\ pairs[i][1 - signer.position].seed = signer.peer
         /\ pairs[i][1 - signer.position].slot = i

Session(signer) ==
    IF signer.position = PROVIDER_MUSIG_POSITION
    THEN <<signer.seed, signer.peer>>
    ELSE <<signer.peer, signer.seed>>

\* sign(privkey, message, index): this party's share for one slot
sign(signer, message, index) ==
    [position |-> signer.position, session |-> Session(signer),
     slot |-> index, message |-> message, key |-> computePubkey(signer.pubkeys)]

\* an aggregation that takes any two shares for a whole signature
receiveSignatureSharesUnchecked(signer, signature_shares, index) ==
    [message |-> signature_shares[signer.position].message,
     key |-> computePubkey(signer.pubkeys),
     whole |-> TRUE]

\* receiveSignatureShares([share0, share1], index): the aggregate is a signature
\* of the message under the aggregate key only when both shares are shares of
\* this session and slot over one message
receiveSignatureShares(signer, signature_shares, index) ==
    [message |-> signature_shares[signer.position].message,
     key |-> computePubkey(signer.pubkeys),
     whole |-> \A k \in {0, 1}:
                 /\ signature_shares[k].position = k
                 /\ signature_shares[k].message = signature_shares[signer.position].message
                 /\ signature_shares[k].slot = index
                 /\ signature_shares[k].session = Session(signer)
                 /\ signature_shares[k].key = computePubkey(signer.pubkeys)]

\* MusigBN256WasmVerifier.verify against an aggregate key
VerifyFor(key, message, signature) ==
    /\ signature.whole
    /\ signature.message = message
    /\ signature.key = key

\* a verifier that accepts every signature
verifyAlways(signer, message, signature) == TRUE

verify(signer, message, signature) ==
    VerifyFor(computePubkey(signer.pubkeys), message, signature)

(***************************************************************************)
(* utils.ts: sign bytes, formatTx, isSigningKeySet                         *)
(***************************************************************************)
\* the ledger-defined byte layout of each transaction type
Bytes(fields) ==
    fields[1] \o "|" \o ToString(fields[2]) \o "|" \o fields[3] \o "|" \o fields[4]
        \o "|" \o fields[5] \o "|" \o ToString(fields[6]) \o "|" \o ToString(fields[7])
        \o "|" \o ToString(fields[8]) \o "|" \o ToString(fields[9])
        \o "|" \o ToString(fields[10])

\* sign bytes that leave the nonce out
getSignBytesNoNonce(transaction) ==
    CASE transaction.type = "Transfer" ->
            Bytes(<<"Transfer", transaction.accountId, transaction.from, transaction.to,
                    transaction.token, transaction.amount, transaction.fee,
                    0, transaction.validFrom, transaction.validUntil>>)
      [] transaction.type = "Withdraw" ->
            Bytes(<<"Withdraw", transaction.accountId, transaction.from,
                    transaction.ethAddress,
                    transaction.token, transaction.amount, transaction.fee,
                    0, transaction.validFrom, transaction.validUntil>>)
      [] transaction.type = "ChangePubKey" ->
            Bytes(<<"ChangePubKey", transaction.accountId, transaction.from,
                    transaction.newPkHash,
                    transaction.token, 0, transaction.fee,
                    0, transaction.validFrom, transaction.validUntil>>)

getSignBytes(transaction) ==
    CASE transaction.type = "Transfer" ->
            Bytes(<<"Transfer", transaction.accountId, transaction.from, transaction.to,
                    transaction.token, transaction.amount, transaction.fee,
                    transaction.nonce, transaction.validFrom, transaction.validUntil>>)
      [] transaction.type = "Withdraw" ->
            Bytes(<<"Withdraw", transaction.accountId, transaction.from,
                    transaction.ethAddress,
                    transaction.token, transaction.amount, transaction.fee,
                    transaction.nonce, transaction.validFrom, transaction.validUntil>>)
      [] transaction.type = "ChangePubKey" ->
            Bytes(<<"ChangePubKey", transaction.accountId, transaction.from,
                    transaction.newPkHash,
                    transaction.token, 0, transaction.fee,
                    transaction.nonce, transaction.validFrom, transaction.validUntil>>)

\* the ledger's transaction hash: sha256 of the sign bytes behind the sync-tx: prefix
SYNC_TX_PREFIX == "sync-tx:"
TxHash(transaction) == SYNC_TX_PREFIX \o "sha256(" \o getSignBytes(transaction) \o ")"

\* zksync.utils.serializeTx: the same layout
serializeTx(tx) == getSignBytes(tx)

formatTx(tx, signature, pubkey) ==
    [tx EXCEPT !.signature = [pubKey |-> pubkey, signature |-> signature],
               !.to = IF tx.ethAddress # NoAddr THEN tx.ethAddress ELSE @]

isSigningKeySet(accts, address) ==
    getState(accts, address).committed.pubKeyHash # DEFAULT_PUBKEY_HASH

(***************************************************************************)
(* The ledger: an escrow transaction is executed only with a valid         *)
(* signature of the account's key, the account's current nonce, inside its *)
(* validity window and with the balance to pay amount and fee              *)
(***************************************************************************)
SignedBy(tx) == tx.signature.pubKey

\* a ledger that does not order the transactions of an account by nonce
LedgerAcceptsAnyNonce(accts, t, tx) ==
    LET a == accts[tx.from] IN
    /\ tx.signature # NoSig
    /\ VerifyFor(SignedBy(tx), getSignBytes(tx), tx.signature.signature)
    /\ a.id # 0 /\ tx.accountId = a.id
    /\ IF tx.type = "ChangePubKey"
       THEN /\ tx.newPkHash = SYNC_PREFIX \o pubKeyHash(SignedBy(tx))
            /\ tx.ethAuthData.type = "CREATE2"
            /\ getCREATE2AddressAndSalt(pubKeyHash(SignedBy(tx)),
                    [creator |-> tx.ethAuthData.creatorAddress,
                     salt |-> tx.ethAuthData.saltArg,
                     hash |-> tx.ethAuthData.codeHash]).address = tx.from
       ELSE a.committed.pubKeyHash = SYNC_PREFIX \o pubKeyHash(SignedBy(tx))
    /\ InWindow(tx, t)
    /\ a.committed.balances[tx.token] >= tx.amount + tx.fee

LedgerAccepts(accts, t, tx) ==
    LET a == accts[tx.from] IN
    /\ tx.signature # NoSig
    /\ VerifyFor(SignedBy(tx), getSignBytes(tx), tx.signature.signature)
    /\ a.id # 0 /\ tx.accountId = a.id
    /\ IF tx.type = "ChangePubKey"
       THEN /\ tx.newPkHash = SYNC_PREFIX \o pubKeyHash(SignedBy(tx))
            /\ tx.ethAuthData.type = "CREATE2"
            /\ getCREATE2AddressAndSalt(pubKeyHash(SignedBy(tx)),
                    [creator |-> tx.ethAuthData.creatorAddress,
                     salt |-> tx.ethAuthData.saltArg,
                     hash |-> tx.ethAuthData.codeHash]).address = tx.from
       ELSE a.committed.pubKeyHash = SYNC_PREFIX \o pubKeyHash(SignedBy(tx))
    /\ tx.nonce = a.committed.nonce
    /\ InWindow(tx, t)
    /\ a.committed.balances[tx.token] >= tx.amount + tx.fee

Credit(accts, addr, token, amount) ==
    [accts EXCEPT ![addr].committed.balances[token] = @ + amount,
                  ![addr].id = IF @ = 0 THEN 1 ELSE @]

LedgerApply(accts, tx) ==
    LET debited == [accts EXCEPT
                      ![tx.from].committed.nonce = @ + 1,
                      ![tx.from].committed.balances[tx.token] = @ - (tx.amount + tx.fee),
                      ![tx.from].committed.pubKeyHash =
                            IF tx.type = "ChangePubKey" THEN tx.newPkHash ELSE @] IN
    CASE tx.type = "Transfer" -> Credit(debited, tx.to, tx.token, tx.amount)
      [] tx.type = "Withdraw" -> Credit(debited, L1(tx.ethAddress), tx.token, tx.amount)
      [] tx.type = "ChangePubKey" -> debited

\* the ledger state: accounts and the receipts of executed escrow transactions
Ledger(accts, ex) == [accounts |-> accts, executed |-> ex]

\* zksync.wallet.submitSignedTransaction: Undefined when the ledger rejects it
submitSignedTransaction(L, t, tx) ==
    IF LedgerAccepts(L.accounts, t, tx)
    THEN Ledger(LedgerApply(L.accounts, tx), L.executed \cup {TxHash(tx)})
    ELSE Undefined

\* submitSignedTransactionsBatch: all of the batch or nothing
RECURSIVE submitSignedTransactionsBatch(_, _, _)
submitSignedTransactionsBatch(L, t, batch) ==
    IF batch = <<>> THEN L
    ELSE LET first == submitSignedTransaction(L, t, Head(batch)) IN
         IF IsUndefined(first) THEN Undefined
         ELSE submitSignedTransactionsBatch(first, t, Tail(batch))

\* syncWallet.syncTransfer, signed by the wallet's own key: Undefined when rejected
syncTransfer(L, from, to, token, amount, fee) ==
    IF L.accounts[from].committed.balances[token] >= amount + fee
    THEN Ledger(Credit([L.accounts EXCEPT
                            ![from].committed.balances[token] = @ - (amount + fee)],
                       to, token, amount), L.executed)
    ELSE Undefined

\* syncWallet.depositToSyncFromEthereum: a priority operation funded on L1
depositToSyncFromEthereum(L, from, depositTo, token, amount) ==
    IF L.accounts[L1(from)].committed.balances[token] >= amount
    THEN Ledger(Credit([L.accounts EXCEPT
                            ![L1(from)].committed.balances[token] = @ - amount],
                       depositTo, token, amount), L.executed)
    ELSE Undefined

(***************************************************************************)
(* abstract-party.ts: SwapParty                                            *)
(***************************************************************************)
\* what a public call gives back: the object, the ledger, how the call ended,
\* its return value and the escrow transactions it submitted
Out(self, L, result, ret, sent) ==
    [self |-> self, ledger |-> L, result |-> result, ret |-> ret, sent |-> sent]

Min(S) == CHOOSE x \in S: \A y \in S: x <= y

\* the constructor: state empty, no per-attempt field set
SwapParty ==
    [state |-> "empty", signer |-> Undefined, swapData |-> Undefined,
     pubKeyHash |-> UndefinedString, create2Info |-> Undefined,
     transactions |-> Undefined, sessions |-> 0]

\* a reset that falls back one attempt step only
resetToPrepared(party) == [party EXCEPT !.state = "prepared"]

reset(party) == [party EXCEPT !.state = "empty"]

\* swapAddress() and swapSalt(): the escrow descriptor of the active swap
Party_swapAddress(party) ==
    IF party.state = "empty" THEN Throw("No active swaps present")
    ELSE party.create2Info.address

Party_swapSalt(party) ==
    IF party.state = "empty" THEN Throw("No active swaps present")
    ELSE party.create2Info.salt

isTxExecuted(L, transaction) == TxHash(transaction) \in L.executed

getTargetAddress(transaction) ==
    CASE transaction.type = "Transfer" -> transaction.to
      [] transaction.type = "ChangePubKey" -> transaction.from
      [] transaction.type = "Withdraw" -> transaction.ethAddress

getFeeType(transaction) == transaction.type

RECURSIVE getTransactionsBatchFee(_, _, _)
getTransactionsBatchFee(q, types, token) ==
    IF types = <<>> THEN 0
    ELSE getTransactionFee(q, Head(types), token)
            + getTransactionsBatchFee(q, Tail(types), token)

Types(txs) == [k \in DOMAIN txs |-> getFeeType(txs[k])]

\* deposit(token, amount, depositType): fail = 1 is a ledger failure before the
\* transfer is submitted, fail = 2 one while awaiting its receipt
deposit(self, to, token, amount, depositType, L, q, fail) ==
    LET sentL == IF depositType = "L2"
                 THEN syncTransfer(L, self, to, token, amount,
                                   getTransactionFee(q, "Transfer", token))
                 ELSE depositToSyncFromEthereum(L, self, to, token, amount) IN
    IF fail = 1 THEN [ledger |-> L, result |-> "io"]
    ELSE IF IsUndefined(sentL) THEN [ledger |-> L, result |-> "rejected"]
    ELSE IF fail = 2 THEN [ledger |-> sentL, result |-> "io"]
    ELSE [ledger |-> sentL, result |-> "ok"]

\* sendBatch(txs, token): fail = 1 is a ledger failure before the batch is
\* submitted, fail = 2 one while awaiting the receipts
\* sendBatch from the batch it selected on: the batch fee, the fee-paying
\* transfer, the submission. fail = 2: awaiting the receipts fails
sendSelected(self, batch, token, L, t, q, fail) ==
    LET fee == getTransactionsBatchFee(q, Types(batch) \o <<"Transfer">>, token)
        escrowDone == submitSignedTransactionsBatch(L, t, batch)
        allDone == IF IsUndefined(escrowDone) THEN Undefined
                   ELSE syncTransfer(escrowDone, self, self, token, 0, fee) IN
    IF batch = <<>> THEN [ledger |-> L, result |-> "ok", sent |-> <<>>]
    ELSE IF IsUndefined(allDone) THEN [ledger |-> L, result |-> "rejected", sent |-> <<>>]
    ELSE IF fail = 2 THEN [ledger |-> allDone, result |-> "io", sent |-> batch]
    ELSE [ledger |-> allDone, result |-> "ok", sent |-> batch]

\* the transactions of txs the ledger has not executed
Pending(txs, L) == SelectSeq(txs, LAMBDA tx: ~isTxExecuted(L, tx))

sendBatch(self, txs, token, L, t, q, fail) ==
    IF fail = 1 THEN [ledger |-> L, result |-> "io", sent |-> <<>>]
    ELSE sendSelected(self, Pending(txs, L), token, L, t, q, fail)

(***************************************************************************)
(* provider.ts: SwapProvider                                               *)
(***************************************************************************)
SwapProviderNew ==
    [f \in DOMAIN SwapParty \cup {"shares", "precommitments", "commitments", "clientAddress"}
        |-> IF f \in DOMAIN SwapParty THEN SwapParty[f]
            ELSE IF f = "clientAddress" THEN UndefinedString ELSE Undefined]

Provider_loadSwap(p, swapData, signedTransactions, L, fail) ==
    IF p.state # "empty" THEN Out(p, L, "state", Undefined, <<>>)
    ELSE LET p1 == [p EXCEPT !.swapData = swapData, !.transactions = signedTransactions] IN
         IF IsUndefined(p.create2Info) THEN Out(p1, L, "type error", Undefined, <<>>)
         ELSE LET swapAddress == signedTransactions[0].from
                  p2 == [p1 EXCEPT !.create2Info.address = swapAddress]
                  balance == getState(L.accounts, swapAddress).committed.balances[swapData.buy.token] IN
              IF fail = 1 THEN Out(p2, L, "io", Undefined, <<>>)
              ELSE Out([p2 EXCEPT !.state = IF swapData.buy.amount > balance
                                            THEN "checked" ELSE "deposited"],
                       L, "ok", Undefined, <<>>)

\* signedTransactions without the state guard
Provider_signedTransactionsUnguarded(p, L) == Out(p, L, "ok", p.transactions, <<>>)

Provider_signedTransactions(p, L) ==
    IF p.state # "checked" /\ p.state # "deposited"
    THEN Out(p, L, "state", Undefined, <<>>)
    ELSE Out(p, L, "ok", p.transactions, <<>>)

\* prepareSwap without the state guard
Provider_prepareSwapUnguarded(p, data, clientPubkey, clientAddress, L) ==
    LET signer == [MusigSigner(<<PubKeys[1], clientPubkey>>, PROVIDER_MUSIG_POSITION,
                               p.sessions + 1) EXCEPT !.round = 1]
        pkh == pubKeyHash(computePubkey(signer.pubkeys)) IN
    Out([p EXCEPT !.signer = signer, !.sessions = @ + 1,
                  !.precommitments = computePrecommitments(signer),
                  !.swapData = data, !.clientAddress = clientAddress,
                  !.pubKeyHash = pkh,
                  !.create2Info = getCREATE2AddressAndSalt(pkh, data.create2),
                  !.state = "prepared"],
        L, "ok",
        [publicKey |-> PubKeys[1], address |-> PROVIDER,
         precommitments |-> computePrecommitments(signer)], <<>>)

\* prepareSwap deriving the escrow from the keys with the client's first
Provider_prepareSwapClientFirst(p, data, clientPubkey, clientAddress, L) ==
    IF p.state # "empty" THEN Out(p, L, "state", Undefined, <<>>)
    ELSE LET signer == [MusigSigner(<<PubKeys[1], clientPubkey>>, PROVIDER_MUSIG_POSITION,
                                    p.sessions + 1) EXCEPT !.round = 1]
             pkh == pubKeyHash(computePubkey(<<clientPubkey, PubKeys[1]>>)) IN
         Out([p EXCEPT !.signer = signer,
                       !.sessions = @ + 1,
                       !.precommitments = computePrecommitments(signer),
                       !.swapData = data,
                       !.clientAddress = clientAddress,
                       !.pubKeyHash = pkh,
                       !.create2Info = getCREATE2AddressAndSalt(pkh, data.create2),
                       !.state = "prepared"],
             L, "ok",
             [publicKey |-> PubKeys[1], address |-> PROVIDER,
              precommitments |-> computePrecommitments(signer)], <<>>)

Provider_prepareSwap(p, data, clientPubkey, clientAddress, L) ==
    IF p.state # "empty" THEN Out(p, L, "state", Undefined, <<>>)
    ELSE LET signer == [MusigSigner(<<PubKeys[1], clientPubkey>>, PROVIDER_MUSIG_POSITION,
                                    p.sessions + 1) EXCEPT !.round = 1]
             pkh == pubKeyHash(computePubkey(signer.pubkeys)) IN
         Out([p EXCEPT !.signer = signer,
                       !.sessions = @ + 1,
                       !.precommitments = computePrecommitments(signer),
                       !.swapData = data,
                       !.clientAddress = clientAddress,
                       !.pubKeyHash = pkh,
                       !.create2Info = getCREATE2AddressAndSalt(pkh, data.create2),
                       !.state = "prepared"],
             L, "ok",
             [publicKey |-> PubKeys[1], address |-> PROVIDER,
              precommitments |-> computePrecommitments(signer)], <<>>)

\* signSwap handing the two party addresses to getTransactions in the other order
Provider_signSwapSwapped(p, data, L, q, fail) ==
    IF p.state # "prepared" THEN Out(p, L, "state", Undefined, <<>>)
    ELSE
    LET pre == transpose(Array(<<p.precommitments, data.precommitments>>)) IN
    IF ~PrecommitmentsOk(p.signer, pre) THEN Out(p, L, "musig", Undefined, <<>>)
    ELSE
    LET s2 == [p.signer EXCEPT !.round = 2, !.peer = PeerOf(p.signer, pre)]
        p1 == [p EXCEPT !.signer = s2, !.commitments = Commitments(s2, s2.peer)]
        com == transpose(Array(<<p1.commitments, data.commitments>>)) IN
    IF ~CommitmentsOk(s2, com) THEN Out(p1, L, "musig", Undefined, <<>>)
    ELSE
    LET s3 == [s2 EXCEPT !.round = 3]
        p2 == [p1 EXCEPT !.signer = s3]
        txs == getTransactions(p.swapData, PROVIDER, p.clientAddress,
                               getState(L.accounts, p.create2Info.address),
                               p.pubKeyHash, q) IN
    IF fail = 1 THEN Out(p2, L, "io", Undefined, <<>>)
    ELSE IF IsError(txs) THEN Out(p2, L, "no account", Undefined, <<>>)
    ELSE LET shares == [i \in DOMAIN txs |-> sign(s3, serializeTx(txs[i]), i)] IN
         Out([p2 EXCEPT !.transactions = txs, !.shares = shares, !.state = "signed"],
             L, "ok", [commitments |-> p1.commitments, shares |-> shares], <<>>)

\* fail = 1: a ledger call of getTransactions fails
Provider_signSwap(p, data, L, q, fail) ==
    IF p.state # "prepared" THEN Out(p, L, "state", Undefined, <<>>)
    ELSE
    LET pre == transpose(Array(<<p.precommitments, data.precommitments>>)) IN
    IF ~PrecommitmentsOk(p.signer, pre) THEN Out(p, L, "musig", Undefined, <<>>)
    ELSE
    LET s2 == [p.signer EXCEPT !.round = 2, !.peer = PeerOf(p.signer, pre)]
        p1 == [p EXCEPT !.signer = s2, !.commitments = Commitments(s2, s2.peer)]
        com == transpose(Array(<<p1.commitments, data.commitments>>)) IN
    IF ~CommitmentsOk(s2, com) THEN Out(p1, L, "musig", Undefined, <<>>)
    ELSE
    LET s3 == [s2 EXCEPT !.round = 3]
        p2 == [p1 EXCEPT !.signer = s3]
        txs == getTransactions(p.swapData, p.clientAddress, PROVIDER,
                               getState(L.accounts, p.create2Info.address),
                               p.pubKeyHash, q) IN
    IF fail = 1 THEN Out(p2, L, "io", Undefined, <<>>)
    ELSE IF IsError(txs) THEN Out(p2, L, "no account", Undefined, <<>>)
    ELSE LET shares == [i \in DOMAIN txs |-> sign(s3, serializeTx(txs[i]), i)] IN
         Out([p2 EXCEPT !.transactions = txs, !.shares = shares, !.state = "signed"],
             L, "ok", [commitments |-> p1.commitments, shares |-> shares], <<>>)

\* fail = 1: getState fails
Provider_checkSwap(p, signatureShares, L, fail) ==
    IF p.state # "signed" THEN Out(p, L, "state", Undefined, <<>>)
    ELSE
    LET musigPubkey == computePubkey(p.signer.pubkeys)
        signature(i) == receiveSignatureShares(p.signer,
                            Array(<<p.shares[i], signatureShares[i]>>), i)
        bad == {i \in DOMAIN p.transactions:
                    ~verify(p.signer, serializeTx(p.transactions[i]), signature(i))}
        stop == IF bad = {} THEN TOTAL_TRANSACTIONS ELSE Min(bad)
        p1 == [p EXCEPT !.transactions =
                    [i \in DOMAIN p.transactions |->
                        IF i < stop THEN formatTx(p.transactions[i], signature(i), musigPubkey)
                        ELSE p.transactions[i]]]
        balance == getState(L.accounts, p.create2Info.address)
                        .committed.balances[p.swapData.sell.token] IN
    IF bad # {} THEN Out(p1, L, "invalid", Undefined, <<>>)
    ELSE IF fail = 1 THEN Out(p1, L, "io", Undefined, <<>>)
    ELSE IF p.swapData.sell.amount > balance THEN Out(p1, L, "rejected", Undefined, <<>>)
    ELSE Out([p1 EXCEPT !.state = "checked"], L, "ok", Undefined, <<>>)

\* depositFunds(depositType): the provider's side of the trade into the escrow
Provider_depositFunds(p, depositType, L, q, fail) ==
    IF p.state # "checked" THEN Out(p, L, "state", Undefined, <<>>)
    ELSE LET r == deposit(PROVIDER, p.create2Info.address, p.swapData.buy.token,
                          p.swapData.buy.amount + p.transactions[1].fee,
                          depositType, L, q, fail) IN
         Out(IF r.result = "ok" THEN [p EXCEPT !.state = "deposited"] ELSE p,
             r.ledger, r.result, Undefined, <<>>)

Provider_finalizeSwap(p, L, t, q, fail) ==
    IF p.state # "checked" THEN Out(p, L, "state", Undefined, <<>>)
    ELSE LET r == sendBatch(PROVIDER,
                            <<p.transactions[0], p.transactions[1], p.transactions[2]>>,
                            p.swapData.buy.token, L, t, q, fail) IN
         Out(IF r.result = "ok" THEN [p EXCEPT !.state = "finalized"] ELSE p,
             r.ledger, r.result, Undefined, r.sent)

(***************************************************************************)
(* client.ts: SwapClient and Swap                                          *)
(***************************************************************************)
SwapClientNew ==
    [f \in DOMAIN SwapParty \cup {"commitments"}
        |-> IF f \in DOMAIN SwapParty THEN SwapParty[f] ELSE Undefined]

\* fail = 1: getState fails; 2: the 0-transfer fails before it is submitted;
\* 3: awaiting its receipt fails; 4: a ledger call of getTransactions fails
Client_prepareSwap(c, data, providerPubkey, providerAddress, providerPrecommitments, L, q, fail) ==
    IF c.state # "empty" THEN Out(c, L, "state", Undefined, <<>>)
    ELSE
    LET signer == [MusigSigner(<<providerPubkey, PubKeys[2]>>, CLIENT_MUSIG_POSITION,
                               c.sessions + 1) EXCEPT !.round = 1]
        precommitments == computePrecommitments(signer)
        c1 == [c EXCEPT !.swapData = data, !.signer = signer, !.sessions = @ + 1]
        pre == transpose(Array(<<providerPrecommitments, precommitments>>)) IN
    IF ~PrecommitmentsOk(signer, pre) THEN Out(c1, L, "musig", Undefined, <<>>)
    ELSE
    LET s2 == [signer EXCEPT !.round = 2, !.peer = PeerOf(signer, pre)]
        pkh == pubKeyHash(computePubkey(s2.pubkeys))
        c2 == [c1 EXCEPT !.signer = s2,
                         !.commitments = Commitments(s2, s2.peer),
                         !.pubKeyHash = pkh,
                         !.create2Info = getCREATE2AddressAndSalt(pkh, data.create2),
                         !.state = "prepared"]
        swapAddress == c2.create2Info.address
        created == getState(L.accounts, swapAddress).id # 0
        sentL == syncTransfer(L, CLIENT, swapAddress, data.sell.token, 0,
                              getTransactionFee(q, "Transfer", data.sell.token))
        L2 == IF created THEN L ELSE sentL IN
    IF fail = 1 THEN Out(c2, L, "io", Undefined, <<>>)
    ELSE IF ~created /\ fail = 2 THEN Out(c2, L, "io", Undefined, <<>>)
    ELSE IF IsUndefined(L2) THEN Out(c2, L, "rejected", Undefined, <<>>)
    ELSE IF ~created /\ fail = 3 THEN Out(c2, L2, "io", Undefined, <<>>)
    ELSE IF fail # 0 THEN Out(c2, L2, "io", Undefined, <<>>)
    ELSE
    LET txs == getTransactions(data, CLIENT, providerAddress,
                               getState(L2.accounts, swapAddress), pkh, q) IN
    IF IsError(txs) THEN Out(c2, L2, "no account", Undefined, <<>>)
    ELSE Out([c2 EXCEPT !.transactions = txs], L2, "ok",
             [precommitments |-> precommitments, commitments |-> c2.commitments], <<>>)

\* a handle that watches the hash of the cancel transaction
SwapWatchingCancel(changePubKeyTx, finalTx, cancelTx, finalHash) ==
    [changePubKeyTx |-> changePubKeyTx, finalTx |-> finalTx,
     cancelTx |-> cancelTx, finalHash |-> TxHash(cancelTx)]

Swap(changePubKeyTx, finalTx, cancelTx, finalHash) ==
    [changePubKeyTx |-> changePubKeyTx, finalTx |-> finalTx,
     cancelTx |-> cancelTx, finalHash |-> finalHash]

Client_signSwap(c, data, L) ==
    IF c.state # "prepared" THEN Out(c, L, "state", Undefined, <<>>)
    ELSE
    LET com == transpose(Array(<<data.commitments, c.commitments>>)) IN
    IF ~CommitmentsOk(c.signer, com) THEN Out(c, L, "musig", Undefined, <<>>)
    ELSE
    LET s3 == [c.signer EXCEPT !.round = 3]
        c1 == [c EXCEPT !.signer = s3] IN
    IF IsUndefined(c.transactions) THEN Out(c1, L, "type error", Undefined, <<>>)
    ELSE
    LET musigPubkey == computePubkey(s3.pubkeys)
        bytes(i) == getSignBytes(c.transactions[i])
        share(i) == sign(s3, bytes(i), i)
        signature(i) == receiveSignatureShares(s3, Array(<<data.shares[i], share(i)>>), i)
        bad == {i \in DOMAIN c.transactions: ~verify(s3, bytes(i), signature(i))}
        stop == IF bad = {} THEN TOTAL_TRANSACTIONS ELSE Min(bad)
        c2 == [c1 EXCEPT !.transactions =
                    [i \in DOMAIN c.transactions |->
                        IF i < stop THEN formatTx(c.transactions[i], signature(i), musigPubkey)
                        ELSE c.transactions[i]]]
        finalHash == TxHash(c2.transactions[1]) IN
    IF bad # {} THEN Out(c2, L, "invalid", Undefined, <<>>)
    ELSE Out([c2 EXCEPT !.state = "signed"], L, "ok",
             [swap |-> Swap(c2.transactions[0], c2.transactions[1], c2.transactions[3],
                            finalHash),
              shares |-> [i \in DOMAIN c.transactions |-> share(i)]], <<>>)

\* depositFunds without its state guard
Client_depositFundsUnguarded(c, depositType, L, q, fail) ==
    IF IsUndefined(c.transactions) THEN Out(c, L, "state", Undefined, <<>>)
    ELSE LET amount == c.swapData.sell.amount + c.transactions[0].fee + c.transactions[2].fee
             r == deposit(CLIENT, c.create2Info.address, c.swapData.sell.token, amount,
                          depositType, L, q, fail) IN
         Out(IF r.result = "ok" THEN [c EXCEPT !.state = "deposited"] ELSE c,
             r.ledger, r.result, Undefined, <<>>)

Client_depositFunds(c, depositType, L, q, fail) ==
    IF c.state # "signed" THEN Out(c, L, "state", Undefined, <<>>)
    ELSE LET amount == c.swapData.sell.amount + c.transactions[0].fee + c.transactions[2].fee
             r == deposit(CLIENT, c.create2Info.address, c.swapData.sell.token, amount,
                          depositType, L, q, fail) IN
         Out(IF r.result = "ok" THEN [c EXCEPT !.state = "deposited"] ELSE c,
             r.ledger, r.result, Undefined, <<>>)

\* Swap.finalize and Swap.cancel: the ChangePubKey when the key is not set, then
\* tx. fail = 1: isSigningKeySet fails; 2: awaiting the ChangePubKey receipt
\* fails; 3: awaiting the receipt of tx fails
SubmitWithKey(s, tx, L, t, fail) ==
    LET keySet == isSigningKeySet(L.accounts, tx.from)
        afterKey == IF keySet THEN L ELSE submitSignedTransaction(L, t, s.changePubKeyTx)
        first == IF keySet THEN <<>> ELSE <<s.changePubKeyTx>>
        afterTx == IF IsUndefined(afterKey) THEN Undefined ELSE submitSignedTransaction(afterKey, t, tx) IN
    IF fail = 1 THEN Out(s, L, "io", Undefined, <<>>)
    ELSE IF IsUndefined(afterKey) THEN Out(s, L, "rejected", Undefined, <<>>)
    ELSE IF ~keySet /\ fail = 2 THEN Out(s, afterKey, "io", Undefined, first)
    ELSE IF IsUndefined(afterTx) THEN Out(s, afterKey, "rejected", Undefined, first)
    ELSE IF fail # 0 THEN Out(s, afterTx, "io", Undefined, first \o <<tx>>)
    ELSE Out(s, afterTx, "ok", s.finalHash, first \o <<tx>>)

\* finalize that never submits the ChangePubKey
Swap_finalizeWithoutKey(s, L, t, fail) ==
    LET afterTx == submitSignedTransaction(L, t, s.finalTx) IN
    IF IsUndefined(afterTx) THEN Out(s, L, "rejected", Undefined, <<>>)
    ELSE Out(s, afterTx, "ok", s.finalHash, <<s.finalTx>>)

Swap_finalize(s, L, t, fail) == SubmitWithKey(s, s.finalTx, L, t, fail)

Swap_cancel(s, L, t, fail) == SubmitWithKey(s, s.cancelTx, L, t, fail)

\* Swap.wait: notifyTransaction(finalHash, 'COMMIT') answers once the ledger has
\* committed the transaction with that hash; until then the call is pending
Swap_wait(s, L) ==
    IF s.finalHash \in L.executed THEN Out(s, L, "ok", s.finalHash, <<>>)
    ELSE Out(s, L, "pending", Undefined, <<>>)

(***************************************************************************)
(* The protocol: the two parties, the Swap handle, the ledger and the      *)
(* clock. Every public call is one step; the messages a call returns are   *)
(* carried to the other party by the caller (exchangeSwapInfo in the flow  *)
(* test), which may hand over a message of an earlier attempt.             *)
(***************************************************************************)
MaxSessions == 1
MaxFaults == 1

\* each party holds on L2 what one attempt costs it, and on L1 one more deposit
ClientFunds(d, q, layer) ==
    d.sell.amount + 2 * q["Withdraw"][SELL]
        + (IF layer = "L2" THEN 2 * q["Transfer"][SELL] ELSE 0)

ProviderFunds(d, q, layer) ==
    d.buy.amount + q["Transfer"][BUY]
        + (IF layer = "L2" THEN 5 * q["Transfer"][BUY] ELSE 0)

ProtocolTerms == {d \in SwapDatas: /\ d.sell.amount = MaxAmount
                                   /\ d.buy.amount = 1
                                   /\ d.timeout = MAX_TIMESTAMP - 2}

ProtocolQuotes == {q \in Quotes: /\ q["Withdraw"][SELL] >= q["Transfer"][SELL]
                                 /\ q["ChangePubKey"][SELL] = q["Withdraw"][SELL]
                                 /\ q["Transfer"][BUY] = q["Transfer"][SELL]}

IdleChan == [prepared |-> Undefined, clientData |-> Undefined,
             providerData |-> Undefined, clientShares |-> Undefined,
             signedTransactions |-> Undefined]

TheLedger == Ledger(accounts, executed)

\* the points at which a ledger call of an operation may fail (0: none does)
Fail(points) == IF faults < MaxFaults THEN 0..points ELSE {0}

\* the ledger before the attempt: both parties funded, the escrow not created
FundedAccounts ==
    [a \in Addresses |->
        IF a = ESCROW THEN Account(a, 0, 0, DEFAULT_PUBKEY_HASH, Balances(0, 0))
        ELSE Account(a, 1, 0, DEFAULT_PUBKEY_HASH,
                CASE a = CLIENT -> Balances(ClientFunds(terms, quote, "L2"), 0)
                  [] a = L1(CLIENT) -> Balances(ClientFunds(terms, quote, "L1"), 0)
                  [] a = PROVIDER -> Balances(0, ProviderFunds(terms, quote, "L2"))
                  [] a = L1(PROVIDER) -> Balances(0, ProviderFunds(terms, quote, "L1")))]

Init ==
    /\ terms \in ProtocolTerms
    /\ quote \in ProtocolQuotes
    /\ now = 0
    /\ accounts = FundedAccounts
    /\ executed = {}
    /\ prov = SwapProviderNew
    /\ cli = SwapClientNew
    /\ swap = Undefined
    /\ chan = IdleChan
    /\ faults = 0
    /\ sim = IdleSim
    /\ calls = IdleCalls

\* the effect of a call on the ledger and on the count of failed ledger calls
Called(r) ==
    /\ accounts' = r.ledger.accounts
    /\ executed' = r.ledger.executed
    /\ faults' = IF r.result = "io" THEN faults + 1 ELSE faults

ProviderPrepareSwap ==
    /\ prov.state = "empty" => prov.sessions < MaxSessions
    /\ LET r == Provider_prepareSwap(prov, terms, PubKeys[2], CLIENT, TheLedger) IN
         /\ Called(r)
         /\ prov' = r.self
         /\ chan' = IF r.result = "ok" THEN [chan EXCEPT !.prepared = r.ret] ELSE chan
    /\ UNCHANGED <<terms, quote, now, cli, swap, sim, calls>>

ClientPrepareSwap ==
    /\ cli.state = "empty" => cli.sessions < MaxSessions /\ ~IsUndefined(chan.prepared)
    /\ \E fail \in Fail(4):
         LET r == Client_prepareSwap(cli, terms, chan.prepared.publicKey,
                                     chan.prepared.address, chan.prepared.precommitments,
                                     TheLedger, quote, fail) IN
         /\ Called(r)
         /\ cli' = r.self
         /\ chan' = IF r.result = "ok" THEN [chan EXCEPT !.clientData = r.ret] ELSE chan
    /\ UNCHANGED <<terms, quote, now, prov, swap, sim, calls>>

ProviderSignSwap ==
    /\ prov.state = "prepared" => ~IsUndefined(chan.clientData)
    /\ \E fail \in Fail(1):
         LET r == Provider_signSwap(prov, chan.clientData, TheLedger, quote, fail) IN
         /\ Called(r)
         /\ prov' = r.self
         /\ chan' = IF r.result = "ok" THEN [chan EXCEPT !.providerData = r.ret] ELSE chan
    /\ UNCHANGED <<terms, quote, now, cli, swap, sim, calls>>

ClientSignSwap ==
    /\ cli.state = "prepared" => ~IsUndefined(chan.providerData)
    /\ LET r == Client_signSwap(cli, chan.providerData, TheLedger) IN
         /\ Called(r)
         /\ cli' = r.self
         /\ swap' = IF r.result = "ok" THEN r.ret.swap ELSE swap
         /\ chan' = IF r.result = "ok" THEN [chan EXCEPT !.clientShares = r.ret.shares]
                    ELSE chan
    /\ UNCHANGED <<terms, quote, now, prov, sim, calls>>

ProviderCheckSwap ==
    /\ prov.state = "signed" => ~IsUndefined(chan.clientShares)
    /\ \E fail \in Fail(1):
         LET r == Provider_checkSwap(prov, chan.clientShares, TheLedger, fail) IN
         /\ Called(r)
         /\ prov' = r.self
    /\ UNCHANGED <<terms, quote, now, cli, swap, chan, sim, calls>>

ClientDepositFunds ==
    /\ \E depositType \in {"L1", "L2"}, fail \in Fail(2):
         LET r == Client_depositFunds(cli, depositType, TheLedger, quote, fail) IN
         /\ Called(r)
         /\ cli' = r.self
    /\ UNCHANGED <<terms, quote, now, prov, swap, chan, sim, calls>>

ProviderDepositFunds ==
    /\ \E depositType \in {"L1", "L2"}, fail \in Fail(2):
         LET r == Provider_depositFunds(prov, depositType, TheLedger, quote, fail) IN
         /\ Called(r)
         /\ prov' = r.self
    /\ UNCHANGED <<terms, quote, now, cli, swap, chan, sim, calls>>

ProviderFinalizeSwap ==
    /\ \E fail \in Fail(2):
         LET r == Provider_finalizeSwap(prov, TheLedger, now, quote, fail) IN
         /\ Called(r)
         /\ prov' = r.self
    /\ UNCHANGED <<terms, quote, now, cli, swap, chan, sim, calls>>

ProviderSignedTransactions ==
    /\ LET r == Provider_signedTransactions(prov, TheLedger) IN
         /\ Called(r)
         /\ chan' = IF r.result = "ok" THEN [chan EXCEPT !.signedTransactions = r.ret]
                    ELSE chan
    /\ UNCHANGED <<terms, quote, now, prov, cli, swap, sim, calls>>

ProviderLoadSwap ==
    /\ prov.state = "empty" => ~IsUndefined(chan.signedTransactions)
    /\ \E fail \in Fail(1):
         LET r == Provider_loadSwap(prov, terms, chan.signedTransactions, TheLedger, fail) IN
         /\ Called(r)
         /\ prov' = r.self
    /\ UNCHANGED <<terms, quote, now, cli, swap, chan, sim, calls>>

ProviderReset ==
    /\ prov' = reset(prov)
    /\ UNCHANGED <<terms, quote, now, accounts, executed, cli, swap, chan, faults, sim, calls>>

ClientReset ==
    /\ cli' = reset(cli)
    /\ UNCHANGED <<terms, quote, now, accounts, executed, prov, swap, chan, faults, sim, calls>>

SwapFinalize ==
    /\ ~IsUndefined(swap)
    /\ \E fail \in Fail(3):
         Called(Swap_finalize(swap, TheLedger, now, fail))
    /\ UNCHANGED <<terms, quote, now, prov, cli, swap, chan, sim, calls>>

SwapCancel ==
    /\ ~IsUndefined(swap)
    /\ \E fail \in Fail(3):
         Called(Swap_cancel(swap, TheLedger, now, fail))
    /\ UNCHANGED <<terms, quote, now, prov, cli, swap, chan, sim, calls>>

\* the signed transactions a party holds (formatTx fills in the signature)
Held ==
    {tx \in (IF IsUndefined(prov.transactions) THEN {}
             ELSE {prov.transactions[i]: i \in DOMAIN prov.transactions})
            \cup (IF IsUndefined(cli.transactions) THEN {}
                  ELSE {cli.transactions[i]: i \in DOMAIN cli.transactions}):
        tx.signature # NoSig}

\* a holder submits one signed escrow transaction to the ledger directly
LedgerSubmit ==
    /\ \E tx \in Held:
         LET r == submitSignedTransaction(TheLedger, now, tx) IN
         /\ ~IsUndefined(r)
         /\ accounts' = r.accounts
         /\ executed' = r.executed
    /\ UNCHANGED <<terms, quote, now, prov, cli, swap, chan, faults, sim, calls>>

Tick ==
    /\ now < MAX_TIMESTAMP
    /\ now' = now + 1
    /\ UNCHANGED <<terms, quote, accounts, executed, prov, cli, swap, chan, faults, sim, calls>>

Next ==
    \/ ProviderPrepareSwap
    \/ ClientPrepareSwap
    \/ ProviderSignSwap
    \/ ClientSignSwap
    \/ ProviderCheckSwap
    \/ ClientDepositFunds
    \/ ProviderDepositFunds
    \/ ProviderFinalizeSwap
    \/ ProviderSignedTransactions
    \/ ProviderLoadSwap
    \/ ProviderReset
    \/ ClientReset
    \/ SwapFinalize
    \/ SwapCancel
    \/ LedgerSubmit
    \/ Tick

Spec == Init /\ [][Next]_vars

(***************************************************************************)
(* Overlapping calls on one party. An async method runs up to its first    *)
(* await, and the rest runs when the ledger has answered; in between the   *)
(* caller may call the party again. The guard on state is read when the    *)
(* call begins, state is assigned when the call ends.                      *)
(***************************************************************************)
MaxInFlight == 2

\* the state the guard of the operation asks for
Requires(op) ==
    CASE op = "Provider_signSwap" -> "prepared"
      [] op = "Provider_checkSwap" -> "signed"
      [] op = "Provider_depositFunds" -> "checked"
      [] op = "Provider_finalizeSwap" -> "checked"
      [] op = "Client_depositFunds" -> "signed"

PartyOf(op) == IF op = "Client_depositFunds" THEN cli ELSE prov

\* what the caller must hold to make the call
Callable(op) ==
    CASE op = "Provider_signSwap" -> ~IsUndefined(chan.clientData)
      [] op = "Provider_checkSwap" -> ~IsUndefined(chan.clientShares)
      [] OTHER -> TRUE

InFlight(op) ==
    LET RECURSIVE Sum(_)
        Sum(S) == IF S = {} THEN 0
                  ELSE LET c == CHOOSE x \in S: TRUE IN calls.flying[c] + Sum(S \ {c}) IN
    Sum({c \in OverlapCalls: c[1] = op})

\* the party as the call that passed the guard took it to be
Passed(op) == [PartyOf(op) EXCEPT !.state = Requires(op)]

\* the party after the call: a call that throws does not assign state
Settle(party, r) == IF r.result = "ok" THEN r.self ELSE [r.self EXCEPT !.state = party.state]

Ended(c, r) ==
    calls' = [calls EXCEPT !.flying[c] = @ - 1,
                           !.acted[c[1]] = IF r.result = "ok" THEN @ + 1 ELSE @]

\* a call passes its guard and waits for the ledger
BeginCall ==
    /\ \E c \in OverlapCalls:
         /\ PartyOf(c[1]).state = Requires(c[1])
         /\ Callable(c[1])
         /\ InFlight(c[1]) < MaxInFlight
         /\ calls' = [calls EXCEPT !.flying[c] = @ + 1]
    /\ UNCHANGED <<terms, quote, now, accounts, executed, prov, cli, swap, chan, faults, sim>>

EndProviderSignSwap ==
    /\ LET c == <<"Provider_signSwap", "">>
           r == Provider_signSwap(Passed(c[1]), chan.clientData, TheLedger, quote, 0) IN
         /\ calls.flying[c] > 0
         /\ Called(r)
         /\ prov' = Settle(prov, r)
         /\ chan' = IF r.result = "ok" THEN [chan EXCEPT !.providerData = r.ret] ELSE chan
         /\ Ended(c, r)
    /\ UNCHANGED <<terms, quote, now, cli, swap, sim>>

EndProviderCheckSwap ==
    /\ LET c == <<"Provider_checkSwap", "">>
           r == Provider_checkSwap(Passed(c[1]), chan.clientShares, TheLedger, 0) IN
         /\ calls.flying[c] > 0
         /\ Called(r)
         /\ prov' = Settle(prov, r)
         /\ Ended(c, r)
    /\ UNCHANGED <<terms, quote, now, cli, swap, chan, sim>>

EndProviderDepositFunds ==
    /\ \E depositType \in {"L1", "L2"}:
         LET c == <<"Provider_depositFunds", depositType>>
             r == Provider_depositFunds(Passed(c[1]), depositType, TheLedger, quote, 0) IN
         /\ calls.flying[c] > 0
         /\ Called(r)
         /\ prov' = Settle(prov, r)
         /\ Ended(c, r)
    /\ UNCHANGED <<terms, quote, now, cli, swap, chan, sim>>

EndProviderFinalizeSwap ==
    /\ LET c == <<"Provider_finalizeSwap", "">>
           r == Provider_finalizeSwap(Passed(c[1]), TheLedger, now, quote, 0) IN
         /\ calls.flying[c] > 0
         /\ Called(r)
         /\ prov' = Settle(prov, r)
         /\ Ended(c, r)
    /\ UNCHANGED <<terms, quote, now, cli, swap, chan, sim>>

EndClientDepositFunds ==
    /\ \E depositType \in {"L1", "L2"}:
         LET c == <<"Client_depositFunds", depositType>>
             r == Client_depositFunds(Passed(c[1]), depositType, TheLedger, quote, 0) IN
         /\ calls.flying[c] > 0
         /\ Called(r)
         /\ cli' = Settle(cli, r)
         /\ Ended(c, r)
    /\ UNCHANGED <<terms, quote, now, prov, swap, chan, sim>>

\* no ledger call fails here: what is explored is the order of the calls
InitOverlap ==
    /\ terms \in ProtocolTerms
    /\ quote \in ProtocolQuotes
    /\ now = 0
    /\ accounts = FundedAccounts
    /\ executed = {}
    /\ prov = SwapProviderNew
    /\ cli = SwapClientNew
    /\ swap = Undefined
    /\ chan = IdleChan
    /\ faults = MaxFaults
    /\ sim = IdleSim
    /\ calls = IdleCalls

NextOverlap ==
    \/ ProviderPrepareSwap
    \/ ClientPrepareSwap
    \/ ClientSignSwap
    \/ BeginCall
    \/ EndProviderSignSwap
    \/ EndProviderCheckSwap
    \/ EndProviderDepositFunds
    \/ EndProviderFinalizeSwap
    \/ EndClientDepositFunds

SpecOverlap == InitOverlap /\ [][NextOverlap]_vars

(***************************************************************************)
(* The submission race: finalizeSwap of the provider and Swap.finalize of  *)
(* the client step by step, each await a point where the other may run.    *)
(***************************************************************************)
\* finalizeSwap up to the end of the isTxExecuted loop of sendBatch
BeginFinalizeSwap ==
    /\ prov.state = "checked"
    /\ ~calls.race.finalizeSwap.on
    /\ calls' = [calls EXCEPT !.race.finalizeSwap =
                    [on |-> TRUE,
                     batch |-> Pending(<<prov.transactions[0], prov.transactions[1],
                                         prov.transactions[2]>>, TheLedger)]]
    /\ UNCHANGED <<terms, quote, now, accounts, executed, prov, cli, swap, chan, faults, sim>>

\* the rest of sendBatch, and the assignment of finalized when it returns
EndFinalizeSwap ==
    /\ calls.race.finalizeSwap.on
    /\ LET r == sendSelected(PROVIDER, calls.race.finalizeSwap.batch,
                             prov.swapData.buy.token, TheLedger, now, quote, 0) IN
       /\ Called(r)
       /\ prov' = IF r.result = "ok" THEN [prov EXCEPT !.state = "finalized"] ELSE prov
    /\ calls' = [calls EXCEPT !.race.finalizeSwap = IdleRace.finalizeSwap]
    /\ UNCHANGED <<terms, quote, now, cli, swap, chan, sim>>

\* Swap.finalize up to the answer of isSigningKeySet
BeginFinalize ==
    /\ ~IsUndefined(swap)
    /\ calls.race.finalize.stage = "idle"
    /\ calls' = [calls EXCEPT !.race.finalize.stage =
                    IF isSigningKeySet(accounts, swap.finalTx.from) THEN "final" ELSE "key"]
    /\ UNCHANGED <<terms, quote, now, accounts, executed, prov, cli, swap, chan, faults, sim>>

\* the ChangePubKey is submitted; a rejection ends the call
FinalizeKey ==
    /\ calls.race.finalize.stage = "key"
    /\ LET after == submitSignedTransaction(TheLedger, now, swap.changePubKeyTx) IN
       IF IsUndefined(after)
       THEN /\ calls' = [calls EXCEPT !.race.finalize.stage = "idle"]
            /\ UNCHANGED <<accounts, executed>>
       ELSE /\ calls' = [calls EXCEPT !.race.finalize.stage = "final"]
            /\ accounts' = after.accounts
            /\ executed' = after.executed
    /\ UNCHANGED <<terms, quote, now, prov, cli, swap, chan, faults, sim>>

\* finalTx is submitted and the call ends
FinalizeTx ==
    /\ calls.race.finalize.stage = "final"
    /\ LET after == submitSignedTransaction(TheLedger, now, swap.finalTx) IN
       IF IsUndefined(after)
       THEN UNCHANGED <<accounts, executed>>
       ELSE /\ accounts' = after.accounts
            /\ executed' = after.executed
    /\ calls' = [calls EXCEPT !.race.finalize.stage = "idle"]
    /\ UNCHANGED <<terms, quote, now, prov, cli, swap, chan, faults, sim>>

NextRace ==
    \/ ProviderPrepareSwap
    \/ ClientPrepareSwap
    \/ ProviderSignSwap
    \/ ClientSignSwap
    \/ ProviderCheckSwap
    \/ ClientDepositFunds
    \/ ProviderDepositFunds
    \/ BeginFinalizeSwap
    \/ EndFinalizeSwap
    \/ BeginFinalize
    \/ FinalizeKey
    \/ FinalizeTx
    \/ Tick

SpecRace == Init /\ [][NextRace]_vars

\* ---------------------------------------------------------------------------
\* contracts/Rescuer.sol: the escrow recovery contract, deployed on L1 at the
\* escrow address by Deployer.deploy. Balances on L1 are kept in accounts under
\* the L1 addresses.
\* ---------------------------------------------------------------------------
\* a third party on L1 (the rich wallet of the flow test)
RICH == "0xrich"
RESCUER == L1(ESCROW)
Callers == {L1(CLIENT), L1(PROVIDER), L1(RICH)}

\* the constructor: the four addresses it stores; ETH is the token address(0)
Rescuer(client, provider, clientToken, providerToken) ==
    [client |-> client, provider |-> provider,
     clientToken |-> clientToken, providerToken |-> providerToken]

TheRescuer == Rescuer(L1(CLIENT), L1(PROVIDER), terms.sell.token, terms.buy.token)

\* a transfer of the whole balance of token held by from
MoveAll(accts, from, to, token) ==
    LET balance == accts[from].committed.balances[token] IN
    IF from = to THEN accts
    ELSE [accts EXCEPT ![from].committed.balances[token] = 0,
                       ![to].committed.balances[token] = @ + balance]

\* withdraw(recipient, token): ETH goes out by msg.sender.call, an ERC20 token
\* by erc20.transfer(recipient, balance)
Rescuer_withdraw(recipient, token, sender, accts) ==
    IF token = "ETH" THEN MoveAll(accts, RESCUER, sender, token)
    ELSE MoveAll(accts, RESCUER, recipient, token)

Rescuer_clientWithdraw(self, sender, accts) ==
    Rescuer_withdraw(self.client, self.clientToken, sender, accts)

Rescuer_providerWithdraw(self, sender, accts) ==
    Rescuer_withdraw(self.provider, self.providerToken, sender, accts)

\* withdraw of the contract version with clientExit and providerExit: ETH goes
\* out by recipient.call
RescuerWithExit_withdraw(recipient, token, sender, accts) ==
    MoveAll(accts, RESCUER, recipient, token)

RescuerClientWithdraw ==
    /\ \E sender \in Callers:
         accounts' = Rescuer_clientWithdraw(TheRescuer, sender, accounts)
    /\ UNCHANGED <<terms, quote, now, executed, prov, cli, swap, chan, faults, sim, calls>>

RescuerProviderWithdraw ==
    /\ \E sender \in Callers:
         accounts' = Rescuer_providerWithdraw(TheRescuer, sender, accounts)
    /\ UNCHANGED <<terms, quote, now, executed, prov, cli, swap, chan, faults, sim, calls>>

\* receive(), and a token transfer to the contract: anyone pays in one unit
RescuerReceive ==
    /\ \E sender \in Callers, token \in Tokens:
         /\ accounts[sender].committed.balances[token] > 0
         /\ accounts' = [accounts EXCEPT
                            ![sender].committed.balances[token] = @ - 1,
                            ![RESCUER].committed.balances[token] = @ + 1]
    /\ UNCHANGED <<terms, quote, now, executed, prov, cli, swap, chan, faults, sim, calls>>

\* the contract deployed, holding what the exit of the escrow account paid out
InitRescuer ==
    /\ terms \in ProtocolTerms
    /\ quote \in ProtocolQuotes
    /\ now = 0
    /\ \E e \in 0..MaxAmount, d \in 0..MaxAmount:
         accounts = [a \in Callers \cup {RESCUER} |->
            Account(a, 1, 0, DEFAULT_PUBKEY_HASH,
                    IF a = RESCUER THEN Balances(e, d)
                    ELSE IF a = L1(RICH) THEN Balances(1, 1) ELSE Balances(0, 0))]
    /\ executed = {}
    /\ prov = IdleParty
    /\ cli = IdleParty
    /\ swap = NoBatch
    /\ chan = NoBatch
    /\ faults = 0
    /\ sim = IdleSim
    /\ calls = IdleCalls

NextRescuer ==
    \/ RescuerClientWithdraw
    \/ RescuerProviderWithdraw
    \/ RescuerReceive

SpecRescuer == InitRescuer /\ [][NextRescuer]_vars

(***************************************************************************)
(* Claims about the batch (checked under SpecBatch)                        *)
(***************************************************************************)
SimBuilt == ~IsError(sim.batch)
SimNonce == accounts[ESCROW].committed.nonce

\* C1: on a ledger that executes each (account, nonce) at most once and only
\* inside the validity window, at most one of slots 1 and 3 and at most one of
\* slots 2 and 4 is ever executed; and once slot 1 has been submitted at a time
\* <= timeout and slot 3 at a time > timeout, exactly one of the two is executed.
C1_Exclusivity ==
    SimBuilt =>
        /\ ~({1, 3} \subseteq sim.done)
        /\ ~({2, 4} \subseteq sim.done)
        /\ (sim.early1 /\ sim.late3) => Cardinality(sim.done \cap {1, 3}) = 1

C1_Witness ==
    /\ SimBuilt
    /\ sim.early1 /\ sim.late3
    /\ sim.done \cap {1, 3} = {1}
    /\ 2 \in sim.done

\* C3: getTransactions returns exactly 5 transactions, in the order and with the
\* types, tokens, amounts, recipients, nonces (n, n+1, n+2, n+1, n+2) and validity
\* windows of the table of SwapPlan.
C3_BatchShape ==
    SimBuilt =>
        LET b == sim.batch
            n == SimNonce IN
        /\ DOMAIN b = 0..4
        /\ b[0].type = "ChangePubKey" /\ b[0].ethAuthData.type = "CREATE2"
        /\ b[0].nonce = n /\ b[0].validFrom = 0 /\ b[0].validUntil = MAX_TIMESTAMP
        /\ b[1].type = "Transfer" /\ b[1].token = terms.buy.token
        /\ b[1].amount = terms.buy.amount
        /\ b[1].from = ESCROW /\ b[1].to = CLIENT
        /\ b[1].nonce = n + 1 /\ b[1].validFrom = 0 /\ b[1].validUntil = terms.timeout
        /\ b[2].type = (IF terms.withdrawType = "L1" THEN "Withdraw" ELSE "Transfer")
        /\ b[2].token = terms.sell.token /\ b[2].amount = terms.sell.amount
        /\ b[2].from = ESCROW
        /\ (IF b[2].type = "Withdraw" THEN b[2].ethAddress ELSE b[2].to) = PROVIDER
        /\ b[2].nonce = n + 2 /\ b[2].validFrom = 0 /\ b[2].validUntil = MAX_TIMESTAMP
        /\ b[3].type = "Transfer" /\ b[3].token = terms.sell.token
        /\ b[3].amount = terms.sell.amount
        /\ b[3].from = ESCROW /\ b[3].to = CLIENT
        /\ b[3].nonce = n + 1
        /\ b[3].validFrom = terms.timeout + 1 /\ b[3].validUntil = MAX_TIMESTAMP
        /\ b[4].type = "Transfer" /\ b[4].token = terms.buy.token
        /\ b[4].from = ESCROW /\ b[4].to = PROVIDER
        /\ b[4].nonce = n + 2
        /\ b[4].validFrom = terms.timeout + 1 /\ b[4].validUntil = MAX_TIMESTAMP

C3_Witness ==
    /\ SimBuilt
    /\ SimNonce = MaxNonce
    /\ terms.withdrawType = "L1"
    /\ sim.batch[2].type = "Withdraw"
    /\ terms.sell.amount # terms.buy.amount

\* C4 as stated: slots 2 and 4 share nonce n+2 and, like slots 1 and 3, are at
\* no time both inside their validity windows.
C4_Original ==
    SimBuilt =>
        /\ sim.batch[2].nonce = sim.batch[4].nonce
        /\ \A t \in Times: ~(InWindow(sim.batch[2], t) /\ InWindow(sim.batch[4], t))

\* C4 as amended: slots 2 and 4 share nonce n+2, so at most one of them is ever
\* executed; the windows of slots 1 and 3 are disjoint and meet at timeout, but
\* the window of slot 2 is [0, MAX] and contains the window [timeout+1, MAX] of
\* slot 4, so after timeout both are inside their windows.
C4_Amended ==
    SimBuilt =>
        LET b == sim.batch IN
        /\ b[2].nonce = SimNonce + 2 /\ b[4].nonce = SimNonce + 2
        /\ ~({2, 4} \subseteq sim.done)
        /\ b[1].validUntil = terms.timeout /\ b[3].validFrom = terms.timeout + 1
        /\ \A t \in Times: ~(InWindow(b[1], t) /\ InWindow(b[3], t))
        /\ \A t \in Times: InWindow(b[4], t) => InWindow(b[2], t)
        /\ \A t \in Times: t > terms.timeout => InWindow(b[2], t) /\ InWindow(b[4], t)

C4_Witness ==
    /\ SimBuilt
    /\ now > terms.timeout
    /\ InWindow(sim.batch[2], now) /\ InWindow(sim.batch[4], now)
    /\ 4 \in sim.done

(***************************************************************************)
(* Claims about the protocol (checked under Spec)                          *)
(***************************************************************************)
Signed == ~IsUndefined(swap)
Exec(i) == ~IsUndefined(cli.transactions) /\ isTxExecuted(TheLedger, cli.transactions[i])
Balance(L, addr, token) == L.accounts[addr].committed.balances[token]
KeySet == isSigningKeySet(accounts, ESCROW)

\* C2: of one attempt's batch a happy-path leg (slot 1 or 2) and a refund-path
\* leg (slot 3 or 4) are never both executed, and slot 2 is executed only if
\* slot 1 is.
C2_OnePath ==
    /\ ~((Exec(1) \/ Exec(2)) /\ (Exec(3) \/ Exec(4)))
    /\ Exec(2) => Exec(1)

\* the refund of the client (slot 3) and the payment of the provider (slot 2) both
\* executed, the client never paid (slot 1)
C2_Witness == Exec(3) /\ Exec(2) /\ ~Exec(1)

\* C5: when both parties have followed the protocol up to the provider's
\* deposit and the timeout has not passed, finalizeSwap succeeds, executes slots
\* 0, 1 and 2, leaves the provider finalized, and credits the client with
\* exactly buy.amount and the provider with exactly sell.amount.
C5_Ready ==
    /\ prov.state = "deposited" /\ cli.state = "deposited"
    /\ now <= terms.timeout
    /\ executed = {} /\ faults = 0
    /\ Balance(TheLedger, ESCROW, SELL) =
            terms.sell.amount + cli.transactions[0].fee + cli.transactions[2].fee
    /\ Balance(TheLedger, ESCROW, BUY) = terms.buy.amount + prov.transactions[1].fee

C5_HappyPath ==
    C5_Ready =>
        LET r == Provider_finalizeSwap(prov, TheLedger, now, quote, 0)
            paidTo == IF terms.withdrawType = "L1" THEN L1(PROVIDER) ELSE PROVIDER IN
        /\ r.result = "ok"
        /\ r.self.state = "finalized"
        /\ \A i \in {0, 1, 2}: isTxExecuted(r.ledger, prov.transactions[i])
        /\ Balance(r.ledger, CLIENT, BUY) = Balance(TheLedger, CLIENT, BUY) + terms.buy.amount
        /\ Balance(r.ledger, paidTo, SELL) = Balance(TheLedger, paidTo, SELL) + terms.sell.amount

C5_Witness ==
    /\ C5_Ready
    /\ Provider_finalizeSwap(prov, TheLedger, now, quote, 0).result = "state"

\* C6: with the signatures combined, both deposits in the escrow, the timeout
\* not passed and slot 1 not yet executed, Swap.finalize succeeds; it submits the
\* ChangePubKey first exactly when the escrow's key is not set, then slot 1, and
\* the client's bought-token balance grows by exactly buy.amount.
C6_Ready ==
    /\ Signed
    /\ now <= terms.timeout
    /\ ~isTxExecuted(TheLedger, swap.finalTx)
    /\ Balance(TheLedger, ESCROW, BUY) >= terms.buy.amount + swap.finalTx.fee
    /\ Balance(TheLedger, ESCROW, SELL) >=
            terms.sell.amount + (IF KeySet THEN 0 ELSE swap.changePubKeyTx.fee)

C6_ClientFinalizes ==
    C6_Ready =>
        LET r == Swap_finalize(swap, TheLedger, now, 0) IN
        /\ r.result = "ok"
        /\ r.ret = swap.finalHash
        /\ r.sent = IF KeySet THEN <<swap.finalTx>>
                    ELSE <<swap.changePubKeyTx, swap.finalTx>>
        /\ isTxExecuted(r.ledger, swap.finalTx)
        /\ Balance(r.ledger, CLIENT, BUY) = Balance(TheLedger, CLIENT, BUY) + terms.buy.amount

C6_Witness ==
    /\ C6_Ready
    /\ ~KeySet
    /\ prov.state = "deposited"
    /\ Swap_finalize(swap, TheLedger, now, 0).result = "ok"
    /\ Len(Swap_finalize(swap, TheLedger, now, 0).sent) = 2

\* C7: after the timeout, with no happy-path leg executed and the client's
\* deposit in the escrow, Swap.cancel returns exactly sell.amount to the client
\* and what the client has lost over the whole attempt is fees only.
ClientHoldings(L) == Balance(L, CLIENT, SELL) + Balance(L, L1(CLIENT), SELL)
ClientLoss(L) ==
    ClientFunds(terms, quote, "L1") + ClientFunds(terms, quote, "L2") - ClientHoldings(L)
\* the fees of the 0-transfer and of the deposit, and the fees the deposit carries
ClientFees ==
    2 * getTransactionFee(quote, "Transfer", SELL)
        + swap.changePubKeyTx.fee + cli.transactions[2].fee

C7_Ready ==
    /\ Signed
    /\ now > terms.timeout
    /\ ~Exec(1) /\ ~Exec(2) /\ ~Exec(3)
    /\ Balance(TheLedger, ESCROW, SELL) >=
            terms.sell.amount + swap.cancelTx.fee
                + (IF KeySet THEN 0 ELSE swap.changePubKeyTx.fee)

C7_CancelRefunds ==
    C7_Ready =>
        LET r == Swap_cancel(swap, TheLedger, now, 0) IN
        /\ r.result = "ok"
        /\ r.sent = IF KeySet THEN <<swap.cancelTx>>
                    ELSE <<swap.changePubKeyTx, swap.cancelTx>>
        /\ Balance(r.ledger, CLIENT, SELL) = Balance(TheLedger, CLIENT, SELL) + terms.sell.amount
        /\ ClientLoss(r.ledger) <= ClientFees

\* the deposit made twice: the cancel succeeds and a whole deposit is lost
C7_Witness ==
    /\ C7_Ready
    /\ Swap_cancel(swap, TheLedger, now, 0).result = "ok"
    /\ ClientLoss(Swap_cancel(swap, TheLedger, now, 0).ledger) > ClientFees + terms.sell.amount

\* C8: at every ledger time t <= timeout slot 3 has not been executed, and a
\* call of Swap.cancel fails, does not execute slot 3 and moves no sold token to
\* the client.
C8_CancelOnlyAfterTimeout ==
    (Signed /\ now <= terms.timeout) =>
        /\ ~isTxExecuted(TheLedger, swap.cancelTx)
        /\ IsUndefined(submitSignedTransaction(TheLedger, now, swap.cancelTx))
        /\ \A fail \in 0..3:
             LET r == Swap_cancel(swap, TheLedger, now, fail) IN
             /\ r.result # "ok"
             /\ ~isTxExecuted(r.ledger, swap.cancelTx)
             /\ Balance(r.ledger, CLIENT, SELL) = Balance(TheLedger, CLIENT, SELL)

C8_Witness ==
    /\ Signed
    /\ now = terms.timeout
    /\ cli.state = "deposited"
    /\ ~KeySet
    /\ Swap_cancel(swap, TheLedger, now, 0).result = "rejected"
    /\ Swap_cancel(swap, TheLedger, now, 0).sent = <<swap.changePubKeyTx>>

\* C9: an operation of SwapProvider or SwapClient called while the party is not
\* in the state the operation requires fails, and the party (state, signer,
\* escrow descriptor, batch) and the ledger are unchanged.
Refused(r, self) == r.result = "state" /\ r.self = self /\ r.ledger = TheLedger

Kept(r, self) ==
    /\ r.result # "ok" => r.self = self
    /\ r.result = "ok" => r.self.state # self.state

C10_FailsWithoutMutating ==
    /\ (prov.state = "empty" => ~IsUndefined(chan.signedTransactions)) =>
         \A fail \in 0..1:
            Kept(Provider_loadSwap(prov, terms, chan.signedTransactions, TheLedger, fail), prov)
    /\ Kept(Provider_prepareSwap(prov, terms, PubKeys[2], CLIENT, TheLedger), prov)
    /\ (prov.state = "prepared" => ~IsUndefined(chan.clientData)) =>
         \A fail \in 0..1:
            Kept(Provider_signSwap(prov, chan.clientData, TheLedger, quote, fail), prov)
    /\ (prov.state = "signed" => ~IsUndefined(chan.clientShares)) =>
         \A fail \in 0..1:
            Kept(Provider_checkSwap(prov, chan.clientShares, TheLedger, fail), prov)
    /\ \A fail \in 0..2:
         /\ \A depositType \in {"L1", "L2"}:
              /\ Kept(Provider_depositFunds(prov, depositType, TheLedger, quote, fail), prov)
              /\ Kept(Client_depositFunds(cli, depositType, TheLedger, quote, fail), cli)
         /\ Kept(Provider_finalizeSwap(prov, TheLedger, now, quote, fail), prov)
    /\ ~IsUndefined(chan.prepared) =>
         \A fail \in 0..4:
            Kept(Client_prepareSwap(cli, terms, chan.prepared.publicKey,
                                    chan.prepared.address, chan.prepared.precommitments,
                                    TheLedger, quote, fail), cli)
    /\ (cli.state = "prepared" => ~IsUndefined(chan.providerData)) =>
         Kept(Client_signSwap(cli, chan.providerData, TheLedger), cli)

\* prepareSwap of the client fails at its first ledger call, state already prepared
C10_Witness ==
    /\ cli.state = "empty"
    /\ ~IsUndefined(chan.prepared)
    /\ LET r == Client_prepareSwap(cli, terms, chan.prepared.publicKey,
                                   chan.prepared.address, chan.prepared.precommitments,
                                   TheLedger, quote, 1) IN
       r.result = "io" /\ r.self.state = "prepared" /\ IsUndefined(r.self.transactions)

(***************************************************************************)
(* Claims about the order of the states                                    *)
(***************************************************************************)
\* the position of a state in the order empty, prepared, signed, checked,
\* deposited, finalized
Rank(state) ==
    CASE state = "empty" -> 0
      [] state = "prepared" -> 1
      [] state = "signed" -> 2
      [] state = "checked" -> 3
      [] state = "deposited" -> 4
      [] state = "finalized" -> 5

\* a call that succeeded was made in the exact predecessor of the state it left
OneStep(r, self) == r.result = "ok" => Rank(r.self.state) = Rank(self.state) + 1

\* C11: every operation except reset succeeds only from the exact predecessor,
\* in the order empty, prepared, signed, checked, deposited, finalized, of the
\* state it moves the party to.
C11_ExactPredecessor ==
    /\ (prov.state = "empty" => ~IsUndefined(chan.signedTransactions)) =>
         OneStep(Provider_loadSwap(prov, terms, chan.signedTransactions, TheLedger, 0), prov)
    /\ OneStep(Provider_prepareSwap(prov, terms, PubKeys[2], CLIENT, TheLedger), prov)
    /\ (prov.state = "prepared" => ~IsUndefined(chan.clientData)) =>
         OneStep(Provider_signSwap(prov, chan.clientData, TheLedger, quote, 0), prov)
    /\ (prov.state = "signed" => ~IsUndefined(chan.clientShares)) =>
         OneStep(Provider_checkSwap(prov, chan.clientShares, TheLedger, 0), prov)
    /\ \A depositType \in {"L1", "L2"}:
         /\ OneStep(Provider_depositFunds(prov, depositType, TheLedger, quote, 0), prov)
         /\ OneStep(Client_depositFunds(cli, depositType, TheLedger, quote, 0), cli)
    /\ OneStep(Provider_finalizeSwap(prov, TheLedger, now, quote, 0), prov)
    /\ ~IsUndefined(chan.prepared) =>
         OneStep(Client_prepareSwap(cli, terms, chan.prepared.publicKey,
                                    chan.prepared.address, chan.prepared.precommitments,
                                    TheLedger, quote, 0), cli)
    /\ (cli.state = "prepared" => ~IsUndefined(chan.providerData)) =>
         OneStep(Client_signSwap(cli, chan.providerData, TheLedger), cli)

\* finalizeSwap succeeds from checked, two steps before finalized
C11_Witness ==
    /\ prov.state = "checked"
    /\ LET r == Provider_finalizeSwap(prov, TheLedger, now, quote, 0) IN
       r.result = "ok" /\ r.self.state = "finalized" /\ Len(r.sent) = 3

\* C12: in every step the state of a party stays or moves forward in the order
\* of the states, except for a step back to empty, which only reset() makes.
C12_ForwardOnly ==
    [][/\ Rank(prov'.state) < Rank(prov.state) => prov'.state = "empty" /\ ProviderReset
       /\ Rank(cli'.state) < Rank(cli.state) => cli'.state = "empty" /\ ClientReset]_vars

\* the provider has been reset after it prepared, the client has gone on
C12_Witness ==
    /\ prov.state = "empty" /\ prov.sessions = 1
    /\ cli.state = "deposited"

\* C13: prepareSwap called in a state other than empty fails and leaves the
\* signer session, the escrow descriptor, the swap terms and the batch as they
\* were.
SameAttempt(a, b) ==
    /\ a.state = b.state
    /\ a.signer = b.signer
    /\ a.create2Info = b.create2Info
    /\ a.pubKeyHash = b.pubKeyHash
    /\ a.swapData = b.swapData
    /\ a.transactions = b.transactions
    /\ a.sessions = b.sessions

C13_PrepareOnlyFromEmpty ==
    /\ prov.state # "empty" =>
         \A data \in ProtocolTerms:
            LET r == Provider_prepareSwap(prov, data, PubKeys[2], CLIENT, TheLedger) IN
            /\ r.result = "state"
            /\ SameAttempt(r.self, prov)
            /\ r.self.precommitments = prov.precommitments
            /\ r.self.clientAddress = prov.clientAddress
    /\ cli.state # "empty" =>
         \A data \in ProtocolTerms, fail \in 0..4:
            LET r == Client_prepareSwap(cli, data, chan.prepared.publicKey,
                                        chan.prepared.address, chan.prepared.precommitments,
                                        TheLedger, quote, fail) IN
            /\ r.result = "state"
            /\ SameAttempt(r.self, cli)
            /\ r.self.commitments = cli.commitments
            /\ r.ledger = TheLedger

C13_Witness ==
    /\ prov.state = "signed"
    /\ cli.state = "prepared"
    /\ Provider_prepareSwap(prov, terms, PubKeys[2], CLIENT, TheLedger).result = "state"
    /\ Client_prepareSwap(cli, terms, chan.prepared.publicKey, chan.prepared.address,
                          chan.prepared.precommitments, TheLedger, quote, 0).result = "state"

(***************************************************************************)
(* Claims about reset                                                      *)
(***************************************************************************)
\* a party that holds nothing of an attempt
Discarded(party) ==
    /\ IsUndefined(party.swapData)
    /\ IsUndefined(party.create2Info)
    /\ IsUndefined(party.signer)
    /\ IsUndefined(party.transactions)
    /\ party.pubKeyHash = UndefinedString

\* C15: after reset() the party holds no swap terms, escrow descriptor, signer
\* session, precommitments, commitments, signature shares or batch of the
\* attempt before.
C15_ResetDiscards ==
    /\ Discarded(reset(prov))
    /\ IsUndefined(reset(prov).precommitments)
    /\ IsUndefined(reset(prov).commitments)
    /\ IsUndefined(reset(prov).shares)
    /\ reset(prov).clientAddress = UndefinedString
    /\ Discarded(reset(cli))
    /\ IsUndefined(reset(cli).commitments)

\* both parties reset after the swap was signed: the batch, the signer and the
\* escrow descriptor of that attempt are still there
C15_Witness ==
    /\ prov.state \in {"checked", "finalized"}
    /\ cli.state = "deposited"
    /\ reset(prov).state = "empty" /\ reset(cli).state = "empty"
    /\ reset(prov).transactions = prov.transactions /\ ~IsUndefined(prov.transactions)
    /\ reset(prov).signer = prov.signer /\ ~IsUndefined(prov.signer)
    /\ reset(cli).create2Info = cli.create2Info /\ ~IsUndefined(cli.create2Info)
    /\ reset(cli).transactions = cli.transactions /\ ~IsUndefined(cli.transactions)

(***************************************************************************)
(* Claims about the verification of the combined signatures                *)
(***************************************************************************)
\* the ways one signature share can be corrupted
Tampers(share) ==
    {[share EXCEPT !.message = "corrupt"],
     [share EXCEPT !.session = <<0, 0>>],
     [share EXCEPT !.slot = (@ + 1) % TOTAL_TRANSACTIONS],
     [share EXCEPT !.position = 1 - @],
     [share EXCEPT !.key = "other"]}

ProviderChecking == prov.state = "signed" /\ ~IsUndefined(chan.clientShares)

ClientSigning ==
    /\ cli.state = "prepared"
    /\ ~IsUndefined(chan.providerData)
    /\ ~IsUndefined(cli.transactions)

\* C17: with one share of the client corrupted, checkSwap raises the
\* verification error, the provider stays in signed, and finalizeSwap of that
\* provider fails and submits nothing.
C17_TamperedShareRejected ==
    ProviderChecking =>
        \A k \in Slots: \A t \in Tampers(chan.clientShares[k]):
            LET r == Provider_checkSwap(prov, [chan.clientShares EXCEPT ![k] = t],
                                        TheLedger, 0) IN
            /\ r.result = "invalid"
            /\ r.self.state = "signed"
            /\ \A fail \in 0..2:
                 LET f == Provider_finalizeSwap(r.self, r.ledger, now, quote, fail) IN
                 f.result = "state" /\ f.ledger = TheLedger /\ f.sent = <<>>

\* the client's deposit is in and the true shares pass: only the corrupted share
\* stops checkSwap
C17_Witness ==
    /\ ProviderChecking
    /\ Provider_checkSwap(prov, chan.clientShares, TheLedger, 0).result = "ok"
    /\ Provider_checkSwap(prov, [chan.clientShares EXCEPT ![4] = [@ EXCEPT !.message = "corrupt"]],
                          TheLedger, 0).result = "invalid"

\* C18: signSwap of the client returns its shares and the Swap handle only when
\* all 5 combined signatures verify; with one share of the provider corrupted
\* it throws, returns nothing and the client stays in prepared.
C18_SharesOnlyIfVerified ==
    ClientSigning =>
        /\ \A k \in Slots: \A t \in Tampers(chan.providerData.shares[k]):
              LET r == Client_signSwap(cli, [chan.providerData EXCEPT !.shares[k] = t],
                                       TheLedger) IN
              \* the verification error, or the signer's refusal of the
              \* commitments of another session before any share is combined
              /\ r.result \in {"invalid", "musig"}
              /\ r.result = "musig" =>
                    Client_signSwap(cli, chan.providerData, TheLedger).result = "musig"
              /\ IsUndefined(r.ret)
              /\ r.self.state = "prepared"
        /\ LET r == Client_signSwap(cli, chan.providerData, TheLedger) IN
           r.result = "ok" =>
              \A i \in Slots:
                 VerifyFor(AggPubkey, getSignBytes(cli.transactions[i]),
                           r.self.transactions[i].signature.signature)

C18_Witness ==
    /\ ClientSigning
    /\ Client_signSwap(cli, chan.providerData, TheLedger).result = "ok"
    /\ LET r == Client_signSwap(cli, [chan.providerData EXCEPT
                                        !.shares[0] = [@ EXCEPT !.session = <<0, 0>>]],
                                TheLedger) IN
       r.result = "invalid" /\ IsUndefined(r.ret)

\* C19: after a verification failure in checkSwap of the provider or signSwap
\* of the client, signSwap, checkSwap, depositFunds and finalizeSwap of that
\* party all fail (until reset is called).
C19_AbortedAfterFailure ==
    /\ ProviderChecking =>
         \A k \in Slots: \A t \in Tampers(chan.clientShares[k]):
            LET r == Provider_checkSwap(prov, [chan.clientShares EXCEPT ![k] = t],
                                        TheLedger, 0) IN
            r.result = "invalid" =>
               /\ Provider_signSwap(r.self, chan.clientData, r.ledger, quote, 0).result # "ok"
               /\ Provider_checkSwap(r.self, chan.clientShares, r.ledger, 0).result # "ok"
               /\ Provider_depositFunds(r.self, "L2", r.ledger, quote, 0).result # "ok"
               /\ Provider_finalizeSwap(r.self, r.ledger, now, quote, 0).result # "ok"
    /\ ClientSigning =>
         \A k \in Slots: \A t \in Tampers(chan.providerData.shares[k]):
            LET r == Client_signSwap(cli, [chan.providerData EXCEPT !.shares[k] = t],
                                     TheLedger) IN
            r.result = "invalid" =>
               /\ Client_signSwap(r.self, chan.providerData, r.ledger).result # "ok"
               /\ Client_depositFunds(r.self, "L2", r.ledger, quote, 0).result # "ok"

\* checkSwap fails on a corrupted share of slot 2, is called again with the
\* true shares and succeeds
C19_Witness ==
    /\ ProviderChecking
    /\ LET r == Provider_checkSwap(prov, [chan.clientShares EXCEPT
                                            ![2] = [@ EXCEPT !.message = "corrupt"]],
                                   TheLedger, 0)
           again == Provider_checkSwap(r.self, chan.clientShares, r.ledger, 0) IN
       /\ r.result = "invalid"
       /\ r.self.transactions[0].signature # NoSig
       /\ again.result = "ok"
       /\ again.self.state = "checked"

(***************************************************************************)
(* Claims about the funds-present check                                    *)
(***************************************************************************)
SetBalance(L, addr, token, amount) ==
    Ledger([L.accounts EXCEPT ![addr].committed.balances[token] = amount], L.executed)

\* what the client commits to the escrow: sell.amount and the fees of slots 0, 2
Committed(p) == p.swapData.sell.amount + p.transactions[0].fee + p.transactions[2].fee

\* C20: with no escrow transaction executed yet, checkSwap succeeds only when
\* the escrow's balance of the sold token is at least sell.amount plus the fees
\* of slots 0 and 2; with any smaller balance it fails with the not-deposited
\* error and the provider stays in signed.
C20_FundsPresent ==
    (ProviderChecking /\ executed = {}) =>
        \A b \in 0..(MaxAmount + 2 * MaxFee):
            LET r == Provider_checkSwap(prov, chan.clientShares,
                                        SetBalance(TheLedger, ESCROW, SELL, b), 0) IN
            /\ r.result = "ok" => b >= Committed(prov)
            /\ b < Committed(prov) => r.result = "rejected" /\ r.self.state = "signed"

\* the escrow holds sell.amount and nothing for the fees: checkSwap succeeds
C20_Witness ==
    /\ ProviderChecking /\ executed = {}
    /\ Committed(prov) > terms.sell.amount
    /\ LET r == Provider_checkSwap(prov, chan.clientShares,
                                   SetBalance(TheLedger, ESCROW, SELL, terms.sell.amount), 0) IN
       r.result = "ok" /\ r.self.state = "checked"

(***************************************************************************)
(* Claims about an attempt that follows reset                              *)
(***************************************************************************)
\* the swap terms of the retried attempt: the CREATE2 salt is changed
FreshTerms == [terms EXCEPT !.create2.salt = "s2"]

\* the ledger, with the account the fresh escrow address stands for
FreshLedger ==
    Ledger(accounts @@ (EscrowOf(FreshTerms) :>
                Account(EscrowOf(FreshTerms), 0, 0, DEFAULT_PUBKEY_HASH, Balances(0, 0))),
           executed)

\* a newly created party, drawing the randomness the party p would draw next
FreshProvider(p) == [SwapProviderNew EXCEPT !.sessions = p.sessions]
FreshClient(c) == [SwapClientNew EXCEPT !.sessions = c.sessions]

\* what a caller sees of a call: how it ended, what it returned, what it
\* submitted, the ledger after it and the state of the party
Observed(r) ==
    [result |-> r.result, ret |-> r.ret, sent |-> r.sent, ledger |-> r.ledger,
     state |-> IF "state" \in DOMAIN r.self THEN r.self.state ELSE "handle"]

\* one full attempt: prepare, sign, deposit, check, deposit, finalize, and the
\* client's own finalize; it stops at the first call of the exchange that fails
Attempt(p0, c0, L0, data, clientDeposit, providerDeposit, t) ==
    LET r1 == Provider_prepareSwap(p0, data, PubKeys[2], CLIENT, L0) IN
    IF r1.result # "ok" THEN <<Observed(r1)>> ELSE
    LET r2 == Client_prepareSwap(c0, data, r1.ret.publicKey, r1.ret.address,
                                 r1.ret.precommitments, r1.ledger, quote, 0) IN
    IF r2.result # "ok" THEN <<Observed(r1), Observed(r2)>> ELSE
    LET r3 == Provider_signSwap(r1.self, r2.ret, r2.ledger, quote, 0) IN
    IF r3.result # "ok" THEN <<Observed(r1), Observed(r2), Observed(r3)>> ELSE
    LET r4 == Client_signSwap(r2.self, r3.ret, r3.ledger) IN
    IF r4.result # "ok" THEN <<Observed(r1), Observed(r2), Observed(r3), Observed(r4)>> ELSE
    LET r5 == Client_depositFunds(r4.self, clientDeposit, r4.ledger, quote, 0)
        r6 == Provider_checkSwap(r3.self, r4.ret.shares, r5.ledger, 0)
        r7 == Provider_depositFunds(r6.self, providerDeposit, r6.ledger, quote, 0)
        r8 == Provider_finalizeSwap(r7.self, r7.ledger, t, quote, 0)
        r9 == Swap_finalize(r4.ret.swap, r8.ledger, t, 0) IN
    <<Observed(r1), Observed(r2), Observed(r3), Observed(r4), Observed(r5),
      Observed(r6), Observed(r7), Observed(r8),
      Observed([r9 EXCEPT !.ret = Undefined])>>

\* C16: from every state reset() leaves the party in empty, and a full attempt
\* with a fresh salt that follows behaves, call by call, as the same attempt
\* on newly created parties.
C16_ResetThenRetry ==
    /\ reset(prov).state = "empty"
    /\ reset(cli).state = "empty"
    /\ \A deposits \in {<<"L1", "L2">>, <<"L2", "L1">>}:
         Attempt(reset(prov), reset(cli), FreshLedger, FreshTerms,
                 deposits[1], deposits[2], now)
            = Attempt(FreshProvider(prov), FreshClient(cli), FreshLedger, FreshTerms,
                      deposits[1], deposits[2], now)

\* both parties are reset in the middle of an attempt, with its batch signed
\* and the client's deposit made; the retried attempt runs to the end and the
\* client's finalize succeeds
C16_Witness ==
    /\ prov.state = "checked"
    /\ cli.state = "deposited"
    /\ now <= terms.timeout
    /\ LET a == Attempt(reset(prov), reset(cli), FreshLedger, FreshTerms, "L1", "L2", now) IN
       /\ Len(a) = 9
       /\ a[7].result = "ok" /\ a[7].state = "deposited"
       /\ a[9].result = "ok"

(***************************************************************************)
(* Claims about overlapping calls (checked under SpecOverlap)              *)
(***************************************************************************)
\* C14: of the calls of one operation that overlap on a party, at most one
\* passes the guard and performs its effects: no step of the attempt is carried
\* out twice, and the client's deposit reaches the escrow at most once.
C14_GuardSuffices ==
    /\ \A op \in OverlapOps: calls.acted[op] <= 1
    /\ executed = {} =>
         accounts[ESCROW].committed.balances[SELL]
            <= terms.sell.amount + 2 * getTransactionFee(quote, "Withdraw", SELL)

\* two depositFunds calls of the client have both transferred the deposit
C14_Witness ==
    /\ calls.acted["Client_depositFunds"] = 2
    /\ cli.state = "deposited"
    /\ executed = {}
    /\ accounts[ESCROW].committed.balances[SELL]
          = 2 * (terms.sell.amount + cli.transactions[0].fee + cli.transactions[2].fee)

\* ---------------------------------------------------------------------------
\* Recovery from a missing deposit
\* ---------------------------------------------------------------------------

\* the balances of the sold token below and from sell.amount on
Short(p) == 0..(p.swapData.sell.amount - 1)
Enough(p) == p.swapData.sell.amount..(MaxAmount + 2 * MaxFee)

\* C21: checkSwap failing for missing funds leaves the provider in signed with
\* its batch and its shares as they were, and a second checkSwap with the same
\* shares, once the deposit is visible, succeeds and moves it to checked.
C21_InsufficientFundsRecoverable ==
    ProviderChecking =>
        \A b \in Short(prov):
            LET r == Provider_checkSwap(prov, chan.clientShares,
                                        SetBalance(TheLedger, ESCROW, SELL, b), 0) IN
            r.result = "rejected" =>
               /\ r.self.state = "signed"
               /\ r.self.transactions = prov.transactions
               /\ r.self.shares = prov.shares
               /\ \A d \in Enough(prov):
                    LET again == Provider_checkSwap(r.self, chan.clientShares,
                                     SetBalance(TheLedger, ESCROW, SELL, d), 0) IN
                    again.result = "ok" /\ again.self.state = "checked"

\* the first call fails for missing funds and has attached the combined
\* signatures to the batch; the second call, with the deposit in, succeeds
C21_Witness ==
    /\ ProviderChecking
    /\ LET r == Provider_checkSwap(prov, chan.clientShares,
                                   SetBalance(TheLedger, ESCROW, SELL, 0), 0) IN
       /\ r.result = "rejected"
       /\ r.self.state = "signed"
       /\ r.self.shares = prov.shares
       /\ r.self.transactions # prov.transactions
       /\ Provider_checkSwap(r.self, chan.clientShares,
              SetBalance(TheLedger, ESCROW, SELL, prov.swapData.sell.amount), 0).result = "ok"

\* the recoverable part alone: signed, the same shares, and the second call
\* succeeds
C21_Recovers ==
    ProviderChecking =>
        \A b \in Short(prov):
            LET r == Provider_checkSwap(prov, chan.clientShares,
                                        SetBalance(TheLedger, ESCROW, SELL, b), 0) IN
            r.result = "rejected" =>
               /\ r.self.state = "signed"
               /\ r.self.shares = prov.shares
               /\ \A d \in Enough(prov):
                    Provider_checkSwap(r.self, chan.clientShares,
                        SetBalance(TheLedger, ESCROW, SELL, d), 0).result = "ok"

\* ---------------------------------------------------------------------------
\* The client's deposit and the signatures
\* ---------------------------------------------------------------------------

\* the batch the client holds carries, in slot i, a combined signature that
\* verifies against the aggregated key of its session
Verified(c, i) ==
    /\ ~IsUndefined(c.transactions)
    /\ verify(c.signer, getSignBytes(c.transactions[i]), c.transactions[i].signature.signature)
    /\ c.transactions[i].signature.pubKey = computePubkey(c.signer.pubkeys)

\* C22: a depositFunds call of the client moves funds only when the client holds
\* all 5 combined signatures and each verifies, the one on its refund (slot 3,
\* sell.amount back to the client) included.
C22_DepositOnlyIfVerified ==
    \A depositType \in {"L1", "L2"}: \A fail \in 0..2:
        LET r == Client_depositFunds(cli, depositType, TheLedger, quote, fail) IN
        r.ledger # TheLedger =>
           /\ \A i \in Slots: Verified(cli, i)
           /\ cli.transactions[3].to = CLIENT
           /\ cli.transactions[3].amount = cli.swapData.sell.amount
           /\ cli.transactions[3].token = cli.swapData.sell.token

\* the client deposits, holding a verified refund
C22_Witness ==
    /\ Client_depositFunds(cli, "L2", TheLedger, quote, 0).result = "ok"
    /\ Balance(Client_depositFunds(cli, "L2", TheLedger, quote, 0).ledger, ESCROW, SELL)
          > Balance(TheLedger, ESCROW, SELL)
    /\ Verified(cli, 3)

\* ---------------------------------------------------------------------------
\* Submission of the happy path and the deposits
\* ---------------------------------------------------------------------------

\* the call handed at least one transaction to the ledger
Submitted(r) == r.result = "rejected" \/ r.sent # <<>>

\* the client's sold-token deposit and the provider's bought-token deposit are
\* both in the escrow account
BothDepositsVisible(L) ==
    /\ Balance(L, ESCROW, terms.sell.token) >= terms.sell.amount
    /\ Balance(L, ESCROW, terms.buy.token) >= terms.buy.amount

\* C23: with no escrow transaction executed yet, finalizeSwap of the provider and
\* Swap.finalize of the client hand transactions to the ledger only when both
\* deposits are visible in the escrow account at that moment.
C23_SubmitOnlyWithBothDeposits ==
    executed = {} =>
        /\ Signed =>
              (Submitted(Swap_finalize(swap, TheLedger, now, 0))
                  => BothDepositsVisible(TheLedger))
        /\ Submitted(Provider_finalizeSwap(prov, TheLedger, now, quote, 0))
              => BothDepositsVisible(TheLedger)

\* the client has deposited and the provider has not: Swap.finalize gets the
\* ChangePubKey executed and the delivery rejected
C23_Witness ==
    /\ executed = {}
    /\ Signed
    /\ Balance(TheLedger, ESCROW, terms.sell.token) >= terms.sell.amount
    /\ Balance(TheLedger, ESCROW, terms.buy.token) = 0
    /\ LET r == Swap_finalize(swap, TheLedger, now, 0) IN
       r.result = "rejected" /\ r.sent = <<swap.changePubKeyTx>>

\* the provider in checked, its own deposit not made: finalizeSwap submits the
\* batch, which the ledger rejects
C23_ProviderWitness ==
    /\ executed = {}
    /\ prov.state = "checked"
    /\ Balance(TheLedger, ESCROW, terms.buy.token) = 0
    /\ Provider_finalizeSwap(prov, TheLedger, now, quote, 0).result = "rejected"

\* ---------------------------------------------------------------------------
\* The refund path after timeout
\* ---------------------------------------------------------------------------

\* timeout has passed, no leg of the batch has executed, both parties hold the
\* same signed batch and both deposits are in the escrow
C24_Ready ==
    /\ Signed
    /\ now > terms.timeout
    /\ \A i \in 1..4: ~Exec(i)
    /\ prov.state \in {"checked", "deposited"}
    /\ \A i \in Slots: TxHash(prov.transactions[i]) = TxHash(cli.transactions[i])
    /\ swap.cancelTx = cli.transactions[3]
    /\ Balance(TheLedger, ESCROW, SELL) >=
            terms.sell.amount + swap.cancelTx.fee
                + (IF KeySet THEN 0 ELSE swap.changePubKeyTx.fee)
    /\ Balance(TheLedger, ESCROW, BUY) >= terms.buy.amount + prov.transactions[4].fee

\* the provider's return (slot 4) is executed on the ledger the call leaves
Returned(r) == isTxExecuted(r.ledger, prov.transactions[4])

\* the signed transactions of slots 0, 3 and 4 handed to the ledger one by
\* one, outside of any operation of a party
ByHand(txs, L, t) ==
    LET key == IF isSigningKeySet(L.accounts, txs[3].from) THEN L
               ELSE submitSignedTransaction(L, t, txs[0])
        refund == IF IsUndefined(key) THEN Undefined
                  ELSE submitSignedTransaction(key, t, txs[3]) IN
    IF IsUndefined(refund) THEN Undefined
    ELSE submitSignedTransaction(refund, t, txs[4])

\* C24: after timeout with no leg executed, each party alone gets the refund
\* path executed: Swap.cancel returns sell.amount to the client through slot 3,
\* and an operation of the provider gets slot 4 executed, returning buy.amount
\* to the provider.
C24_EitherPartyRefunds ==
    C24_Ready =>
        /\ LET r == Swap_cancel(swap, TheLedger, now, 0) IN
           /\ r.result = "ok"
           /\ isTxExecuted(r.ledger, swap.cancelTx)
           /\ Balance(r.ledger, CLIENT, SELL)
                 = Balance(TheLedger, CLIENT, SELL) + terms.sell.amount
        /\ \/ Returned(Provider_finalizeSwap(prov, TheLedger, now, quote, 0))
           \/ \E depositType \in {"L1", "L2"}:
                 Returned(Provider_depositFunds(prov, depositType, TheLedger, quote, 0))
           \/ Returned(Provider_checkSwap(prov, chan.clientShares, TheLedger, 0))
           \/ Returned(Provider_signedTransactions(prov, TheLedger))
           \/ LET loaded == Provider_loadSwap(reset(prov), terms, prov.transactions,
                                              TheLedger, 0) IN
              \/ Returned(loaded)
              \/ Returned(Provider_finalizeSwap(loaded.self, loaded.ledger, now, quote, 0))

\* both have deposited and no call has failed: the client's cancel succeeds and
\* the signed batch would return the provider's deposit too (slots 0, 3, 4 in
\* nonce order), but finalizeSwap, the only submitting operation of the
\* provider, refuses to run in deposited
C24_Witness ==
    /\ C24_Ready
    /\ Swap_cancel(swap, TheLedger, now, 0).result = "ok"
    /\ LET h == ByHand(prov.transactions, TheLedger, now) IN
       /\ ~IsUndefined(h)
       /\ Balance(h, PROVIDER, BUY) = Balance(TheLedger, PROVIDER, BUY) + terms.buy.amount
    /\ faults = 0
    /\ prov.state = "deposited"
    /\ Provider_finalizeSwap(prov, TheLedger, now, quote, 0).result = "state"

\* the refund path of the signed batch itself: submitted by hand in nonce order
\* it returns sell.amount to the client and buy.amount to the provider
C24_BatchRefunds ==
    C24_Ready =>
        LET h == ByHand(prov.transactions, TheLedger, now) IN
        /\ ~IsUndefined(h)
        /\ Balance(h, CLIENT, SELL) = Balance(TheLedger, CLIENT, SELL) + terms.sell.amount
        /\ Balance(h, PROVIDER, BUY) = Balance(TheLedger, PROVIDER, BUY) + terms.buy.amount

\* ... and leaves less than one deposit of either token in the escrow
C24_NothingLocked ==
    C24_Ready =>
        LET h == ByHand(prov.transactions, TheLedger, now) IN
        ~IsUndefined(h) =>
            /\ Balance(h, ESCROW, SELL) < terms.sell.amount
            /\ Balance(h, ESCROW, BUY) < terms.buy.amount

\* ---------------------------------------------------------------------------
\* Concurrent submission of the happy path
\* ---------------------------------------------------------------------------

\* what the transactions of the batch with a hash in new take from the escrow
Debited(token, new) ==
    LET RECURSIVE Sum(_)
        Sum(S) == IF S = {} THEN 0
                  ELSE LET i == CHOOSE x \in S: TRUE IN
                       cli.transactions[i].amount + cli.transactions[i].fee + Sum(S \ {i}) IN
    IF new = {} THEN 0
    ELSE Sum({i \in Slots: /\ TxHash(cli.transactions[i]) \in new
                           /\ cli.transactions[i].token = token})

\* C25: in every interleaving of the steps of finalizeSwap and Swap.finalize,
\* every step consumes one escrow nonce per transaction it newly executes and
\* takes from the escrow what those transactions carry and nothing more, so no
\* slot executes twice and no leg is debited twice; an executed transaction
\* submitted again is rejected.
C25_RaceStep ==
    LET new == executed' \ executed IN
    /\ executed \subseteq executed'
    /\ accounts'[ESCROW].committed.nonce
          = accounts[ESCROW].committed.nonce + Cardinality(new)
    /\ \A token \in Tokens:
          accounts'[ESCROW].committed.balances[token]
             >= accounts[ESCROW].committed.balances[token] - Debited(token, new)
    /\ \A i \in Slots:
          Exec(i) => IsUndefined(submitSignedTransaction(TheLedger, now, cli.transactions[i]))

C26_WaitReturnsOnDelivery ==
    Signed =>
        LET r == Swap_wait(swap, TheLedger) IN
        /\ r.result = "ok" =>
              /\ isTxExecuted(TheLedger, swap.finalTx)
              /\ r.ret = TxHash(swap.finalTx)
              /\ swap.finalTx.to = CLIENT
              /\ swap.finalTx.token = terms.buy.token
        /\ (prov.state = "finalized" /\ TxHash(prov.transactions[1]) = TxHash(swap.finalTx))
              => r.result = "ok"
        /\ r.ledger = TheLedger

\* the provider has finalized and wait returns the hash of the delivery
C26_Witness ==
    /\ Signed
    /\ prov.state = "finalized"
    /\ Swap_wait(swap, TheLedger).result = "ok"
    /\ Balance(TheLedger, CLIENT, BUY) = terms.buy.amount

\* the client has cancelled: slot 3 is executed and wait stays pending
C26_PendingWitness ==
    /\ Signed
    /\ isTxExecuted(TheLedger, swap.cancelTx)
    /\ Swap_wait(swap, TheLedger).result = "pending"

\* ---------------------------------------------------------------------------
\* Agreement on the batch
\* ---------------------------------------------------------------------------

\* the client has built its batch and not yet signed it; the provider is about
\* to build its own
BothBuilding ==
    /\ prov.state = "prepared"
    /\ cli.state = "prepared"
    /\ ~IsUndefined(chan.clientData)
    /\ ~IsUndefined(cli.transactions)
    /\ \A i \in Slots: cli.transactions[i].signature = NoSig

\* the inputs of getTransactions on the two sides: terms, escrow address,
\* aggregated-key hash, and the escrow account on the ledger L as the client saw it
SameInputs(L) ==
    /\ prov.swapData = cli.swapData
    /\ prov.create2Info.address = cli.create2Info.address
    /\ prov.pubKeyHash = cli.pubKeyHash
    /\ prov.clientAddress = CLIENT
    /\ getState(L.accounts, cli.create2Info.address).committed.nonce
          = cli.transactions[0].nonce
    /\ getState(L.accounts, cli.create2Info.address).id = cli.transactions[0].accountId

\* C27: from the same terms, addresses, aggregated-key hash, escrow nonce and
\* fee quotes, signSwap of the provider builds the batch prepareSwap of the
\* client built: the same 5 transactions, equal in every field.
C27_SameBatch ==
    (BothBuilding /\ SameInputs(TheLedger)) =>
        LET r == Provider_signSwap(prov, chan.clientData, TheLedger, quote, 0) IN
        r.result = "ok" =>
           /\ DOMAIN r.self.transactions = DOMAIN cli.transactions
           /\ \A i \in Slots: r.self.transactions[i] = cli.transactions[i]

\* the provider signs a batch equal to the client's, whose slot 1 pays the
\* client and whose slot 2 pays the provider
C27_Witness ==
    /\ BothBuilding
    /\ SameInputs(TheLedger)
    /\ LET r == Provider_signSwap(prov, chan.clientData, TheLedger, quote, 0) IN
       /\ r.result = "ok"
       /\ r.self.transactions = cli.transactions
       /\ cli.transactions[1].to = CLIENT
       /\ PROVIDER \in {cli.transactions[2].to, cli.transactions[2].ethAddress}

\* ---------------------------------------------------------------------------
\* Disagreement on the escrow nonce
\* ---------------------------------------------------------------------------

SetNonce(L, addr, nonce) ==
    Ledger([L.accounts EXCEPT ![addr].committed.nonce = nonce], L.executed)

\* the shares the client's signer produces over the client's own batch
OwnShares(c) ==
    [i \in DOMAIN c.transactions |->
        sign([c.signer EXCEPT !.round = 3], getSignBytes(c.transactions[i]), i)]

\* C28: when the provider builds its batch from an escrow nonce other than the
\* one the client built from, the batches differ, signSwap of the client fails
\* on verification, returns nothing and leaves the client unable to deposit,
\* and checkSwap of the provider fails on the client's shares and leaves the
\* provider in signed.
C28_NonceMismatchFails ==
    (BothBuilding /\ SameInputs(TheLedger)) =>
        \A d \in 1..MaxNonce:
            LET seen == SetNonce(TheLedger, ESCROW, cli.transactions[0].nonce + d)
                r == Provider_signSwap(prov, chan.clientData, seen, quote, 0)
                c == Client_signSwap(cli, r.ret, TheLedger)
                funded == SetBalance(seen, ESCROW, SELL, MaxAmount + 2 * MaxFee)
                k == Provider_checkSwap(r.self, OwnShares(cli), funded, 0) IN
            r.result = "ok" =>
               /\ \E i \in Slots: r.self.transactions[i] # cli.transactions[i]
               \* the verification error, or the signer's refusal of the
               \* commitments of another session, which the same nonce meets too
               /\ c.result \in {"invalid", "musig"}
               /\ c.result = "musig" =>
                     Client_signSwap(cli,
                         Provider_signSwap(prov, chan.clientData, TheLedger, quote, 0).ret,
                         TheLedger).result = "musig"
               /\ IsUndefined(c.ret)
               /\ c.self.state = "prepared"
               /\ \A depositType \in {"L1", "L2"}:
                    LET f == Client_depositFunds(c.self, depositType, TheLedger, quote, 0) IN
                    f.result = "state" /\ f.ledger = TheLedger
               /\ k.result = "invalid"
               /\ k.self.state = "signed"

\* with the same nonce the exchange goes through; with the nonce one higher on
\* the provider's side both verifications fail
C28_Witness ==
    /\ BothBuilding
    /\ SameInputs(TheLedger)
    /\ LET same == Provider_signSwap(prov, chan.clientData, TheLedger, quote, 0)
           seen == SetNonce(TheLedger, ESCROW, cli.transactions[0].nonce + 1)
           r == Provider_signSwap(prov, chan.clientData, seen, quote, 0) IN
       /\ same.result = "ok"
       /\ Client_signSwap(cli, same.ret, TheLedger).result = "ok"
       /\ r.result = "ok"
       /\ r.self.transactions[0].nonce = cli.transactions[0].nonce + 1
       /\ Client_signSwap(cli, r.ret, TheLedger).result = "invalid"
       /\ Provider_checkSwap(r.self, OwnShares(cli),
              SetBalance(seen, ESCROW, SELL, MaxAmount + 2 * MaxFee), 0).result = "invalid"

\* ---------------------------------------------------------------------------
\* Agreement on the escrow address
\* ---------------------------------------------------------------------------

\* both parties have run prepareSwap on the same terms
BothPrepared ==
    /\ prov.state = "prepared"
    /\ cli.state \in {"prepared", "signed", "deposited"}
    /\ prov.swapData = cli.swapData

\* C29: after prepareSwap of the provider and of the client on the same terms,
\* given each other's public keys, both hold the same escrow address and salt,
\* the ones derived from the key aggregated over (provider key, client key),
\* the creator, the salt and the code hash of the terms.
C29_SameEscrow ==
    BothPrepared =>
        /\ prov.create2Info = cli.create2Info
        /\ prov.pubKeyHash = cli.pubKeyHash
        /\ prov.signer.pubkeys = <<PubKeys[1], PubKeys[2]>>
        /\ cli.signer.pubkeys = <<PubKeys[1], PubKeys[2]>>
        /\ cli.pubKeyHash = pubKeyHash(computePubkey(<<PubKeys[1], PubKeys[2]>>))
        /\ cli.create2Info = getCREATE2AddressAndSalt(cli.pubKeyHash, cli.swapData.create2)
        /\ cli.create2Info.address = ESCROW

\* both prepared, holding one escrow address and one salt
C29_Witness ==
    /\ BothPrepared
    /\ cli.state = "prepared"
    /\ prov.create2Info.address = cli.create2Info.address
    /\ prov.create2Info.salt = cli.create2Info.salt
    /\ ~IsUndefined(cli.transactions)

\* ---------------------------------------------------------------------------
\* One round of commitments per signer session
\* ---------------------------------------------------------------------------

\* receiveCommitments has been performed on this signer
Received(signer) == signer.round = 3

\* the call passed its state guard and went on to the signer
RunsSigner(r) == r.result # "state"

\* C30: signSwap, the operation that performs receiveCommitments and sign, never
\* runs on a signer session that has received its commitments already, also
\* when it is called again after a call that failed midway.
C30_CommitmentsOncePerSession ==
    /\ (prov.state = "prepared" /\ ~IsUndefined(chan.clientData)) =>
          /\ ~Received(prov.signer)
          /\ \A fail \in 0..1:
               LET r == Provider_signSwap(prov, chan.clientData, TheLedger, quote, fail) IN
               (r.result # "ok" /\ Received(r.self.signer)) =>
                  ~RunsSigner(Provider_signSwap(r.self, chan.clientData, r.ledger, quote, 0))
    /\ ClientSigning =>
          /\ ~Received(cli.signer)
          /\ \A k \in Slots: \A t \in Tampers(chan.providerData.shares[k]):
               LET r == Client_signSwap(cli, [chan.providerData EXCEPT !.shares[k] = t],
                                        TheLedger) IN
               (r.result # "ok" /\ Received(r.self.signer)) =>
                  ~RunsSigner(Client_signSwap(r.self, chan.providerData, r.ledger))

\* signSwap of the provider failed in getTransactions after receiveCommitments:
\* the provider is still in prepared and signSwap runs on the same session again
C30_Witness ==
    /\ prov.state = "prepared"
    /\ ~IsUndefined(chan.clientData)
    /\ Received(prov.signer)
    /\ faults = 1
    /\ RunsSigner(Provider_signSwap(prov, chan.clientData, TheLedger, quote, 0))

\* the client's half: signSwap fails on a corrupted share of slot 4, after
\* slots 0..4 were signed, and the next signSwap passes the guard again
C30_ClientWitness ==
    /\ ClientSigning
    /\ LET r == Client_signSwap(cli, [chan.providerData EXCEPT
                                        !.shares[4] = [@ EXCEPT !.message = "corrupt"]],
                                TheLedger) IN
       /\ r.result = "invalid"
       /\ Received(r.self.signer)
       /\ RunsSigner(Client_signSwap(r.self, chan.providerData, r.ledger))

\* ---------------------------------------------------------------------------
\* The order of the exchange
\* ---------------------------------------------------------------------------

\* a call of depositFunds that moves funds
ClientDeposits ==
    \E depositType \in {"L1", "L2"}:
        Client_depositFunds(cli, depositType, TheLedger, quote, 0).ledger # TheLedger
ProviderDeposits ==
    \E depositType \in {"L1", "L2"}:
        Provider_depositFunds(prov, depositType, TheLedger, quote, 0).ledger # TheLedger

\* the steps up to sign(client): each has the message of the step before it
OrderedUpToSign ==
    /\ cli.state # "empty" => ~IsUndefined(chan.prepared)
    /\ ~IsUndefined(chan.clientData) => ~IsUndefined(chan.prepared)
    /\ ~IsUndefined(chan.providerData) => ~IsUndefined(chan.clientData)
    /\ Signed => ~IsUndefined(chan.providerData)
    /\ ~IsUndefined(chan.clientShares) => Signed
    /\ ClientDeposits => (Signed /\ cli.state = "signed")

\* deposit(provider) and finalize: only after check, and a happy-path submission
\* goes through only with both deposits in the escrow
OrderedAfterCheck ==
    /\ ProviderDeposits => prov.state = "checked"
    /\ executed = {} =>
          /\ Signed => (Swap_finalize(swap, TheLedger, now, 0).result = "ok"
                          => BothDepositsVisible(TheLedger))
          /\ LET f == Provider_finalizeSwap(prov, TheLedger, now, quote, 0) IN
             f.result = "ok" => (prov.state = "checked" /\ BothDepositsVisible(TheLedger))

\* C31 (as stated): the steps happen in the order prepare(provider),
\* prepare(client), sign(provider), sign(client), check(provider), deposit,
\* finalize; in particular no deposit, of either party, is made before
\* check(provider) has completed.
C31_StrictOrder ==
    /\ OrderedUpToSign
    /\ OrderedAfterCheck
    /\ ClientDeposits => prov.state \in {"checked", "deposited", "finalized"}

\* C31 (amended): the order is prepare(provider), prepare(client),
\* sign(provider), sign(client), deposit(client), check(provider),
\* deposit(provider), finalize: check(provider) completes only with the
\* client's deposit visible in the escrow, and only the provider's deposit
\* waits for it.
C31_Amended ==
    /\ OrderedUpToSign
    /\ OrderedAfterCheck
    /\ ProviderChecking =>
          (Provider_checkSwap(prov, chan.clientShares, TheLedger, 0).result = "ok"
              => Balance(TheLedger, ESCROW, SELL) >= prov.swapData.sell.amount)
    /\ (prov.state = "signed" /\ IsUndefined(chan.clientShares)) => ~ProviderDeposits

\* the client deposits while the provider is still in signed, and checkSwap,
\* which failed before the deposit, succeeds after it
C31_Witness ==
    /\ ProviderChecking
    /\ executed = {}
    /\ Balance(TheLedger, ESCROW, SELL) = 0
    /\ Provider_checkSwap(prov, chan.clientShares, TheLedger, 0).result = "rejected"
    /\ LET d == Client_depositFunds(cli, "L2", TheLedger, quote, 0) IN
       /\ d.result = "ok"
       /\ Provider_checkSwap(prov, chan.clientShares, d.ledger, 0).result = "ok"

\* ---------------------------------------------------------------------------
\* The escrow descriptor and the batch
\* ---------------------------------------------------------------------------

\* salt, address and the CREATE2 data of slot 0 all derive from the party's
\* aggregated-key hash and the create2 data of the terms it holds
Consistent(p) ==
    LET derived == getCREATE2AddressAndSalt(p.pubKeyHash, p.swapData.create2) IN
    /\ Party_swapAddress(p) = derived.address
    /\ Party_swapSalt(p) = derived.salt
    /\ ~IsUndefined(p.transactions) =>
          /\ p.transactions[0].from = derived.address
          /\ p.transactions[0].ethAuthData =
                [type |-> "CREATE2",
                 creatorAddress |-> p.swapData.create2.creator,
                 saltArg |-> p.swapData.create2.salt,
                 codeHash |-> p.swapData.create2.hash]

\* the batch of an attempt on the terms with the fresh salt
FreshBatch ==
    getTransactions(FreshTerms, CLIENT, PROVIDER,
                    [FreshLedger.accounts[EscrowOf(FreshTerms)] EXCEPT !.id = 1],
                    AggPubKeyHash, quote)

\* the provider, reset, loads the swap of the attempt on the fresh salt
LoadedFresh == Provider_loadSwap(reset(prov), FreshTerms, FreshBatch, FreshLedger, 0)

\* C32: in every non-empty state of a party, swapSalt() and swapAddress() are
\* the values derived from the aggregated key and the create2 data of the
\* terms the party holds, and slot 0 of its batch targets that address with
\* that creator, salt and code hash; also after loadSwap.
C32_DescriptorOfOneAttempt ==
    /\ prov.state # "empty" => Consistent(prov)
    /\ cli.state # "empty" => Consistent(cli)
    /\ LoadedFresh.result = "ok" => Consistent(LoadedFresh.self)

\* the provider prepared on salt s1, was reset and loaded the swap on salt s2:
\* swapAddress() is the address of the loaded batch, swapSalt() still the salt
\* of the attempt before
C32_Witness ==
    /\ LoadedFresh.result = "ok"
    /\ LoadedFresh.self.state # "empty"
    /\ Party_swapAddress(LoadedFresh.self) = EscrowOf(FreshTerms)
    /\ Party_swapAddress(LoadedFresh.self) = LoadedFresh.self.transactions[0].from
    /\ Party_swapSalt(LoadedFresh.self)
          = getCREATE2AddressAndSalt(AggPubKeyHash, terms.create2).salt
    /\ Party_swapSalt(LoadedFresh.self)
          # getCREATE2AddressAndSalt(AggPubKeyHash, FreshTerms.create2).salt

\* without loadSwap the descriptor is that of the attempt
C32_WithoutLoad ==
    /\ prov.state # "empty" => Consistent(prov)
    /\ cli.state # "empty" => Consistent(cli)

\* ---------------------------------------------------------------------------
\* The recovery contract
\* ---------------------------------------------------------------------------

\* after the call, to holds what it held plus the contract's whole balance of
\* token, the contract holds none of it, and every other balance is as before
PaidOutTo(after, to, token) ==
    /\ after[to].committed.balances[token]
          = accounts[to].committed.balances[token]
               + accounts[RESCUER].committed.balances[token]
    /\ after[RESCUER].committed.balances[token] = 0
    /\ \A a \in DOMAIN accounts \ {to, RESCUER}: after[a] = accounts[a]
    /\ \A t \in Tokens \ {token}:
          /\ after[to].committed.balances[t] = accounts[to].committed.balances[t]
          /\ after[RESCUER].committed.balances[t] = accounts[RESCUER].committed.balances[t]

\* C33: whoever calls, clientWithdraw pays the contract's whole balance of the
\* client's token to the client and providerWithdraw the provider's token to
\* the provider; nothing goes to any other address.
C33_WithdrawToOwner ==
    \A sender \in Callers:
        /\ PaidOutTo(Rescuer_clientWithdraw(TheRescuer, sender, accounts),
                     TheRescuer.client, TheRescuer.clientToken)
        /\ PaidOutTo(Rescuer_providerWithdraw(TheRescuer, sender, accounts),
                     TheRescuer.provider, TheRescuer.providerToken)

\* a third party calls clientWithdraw and receives the client's ETH
C33_Witness ==
    /\ accounts[RESCUER].committed.balances["ETH"] > 0
    /\ TheRescuer.clientToken = "ETH"
    /\ LET after == Rescuer_clientWithdraw(TheRescuer, L1(RICH), accounts) IN
       /\ after[L1(RICH)].committed.balances["ETH"]
             = accounts[L1(RICH)].committed.balances["ETH"]
                  + accounts[RESCUER].committed.balances["ETH"]
       /\ after[L1(CLIENT)] = accounts[L1(CLIENT)]

\* the ERC20 branch, and the contract version that pays ETH by recipient.call,
\* do pay the owner whoever calls
C33_TokenBranch ==
    \A sender \in Callers:
        /\ PaidOutTo(Rescuer_providerWithdraw(TheRescuer, sender, accounts),
                     TheRescuer.provider, TheRescuer.providerToken)
        /\ PaidOutTo(RescuerWithExit_withdraw(TheRescuer.client, TheRescuer.clientToken,
                                              sender, accounts),
                     TheRescuer.client, TheRescuer.clientToken)

\* ---------------------------------------------------------------------------
\* The two reads of the escrow account
\* ---------------------------------------------------------------------------

\* the provider is about to build the batch of the attempt the client built
\* its batch for
BuildingSameAttempt ==
    /\ BothBuilding
    /\ prov.swapData = cli.swapData
    /\ prov.create2Info.address = cli.create2Info.address
    /\ prov.pubKeyHash = cli.pubKeyHash

HasSession(p) == ~IsUndefined(p.signer)

\* the precommitments of the two sessions have no element in common
Disjoint(fresh, old) == \A i \in Slots, j \in Slots: fresh[i] # old[j]

\* C35: prepareSwap after reset() creates a session other than the one before
\* and returns none of its precommitments, and the operations that sign,
\* combine or verify (signSwap, checkSwap) are refused on a party that was
\* reset, also after loadSwap.
C35_SessionPerAttempt ==
    /\ HasSession(prov) =>
          LET p == reset(prov)
              again == Provider_prepareSwap(p, terms, PubKeys[2], CLIENT, TheLedger) IN
          /\ again.result = "ok"
          /\ again.self.signer.seed # prov.signer.seed
          /\ Disjoint(again.ret.precommitments, computePrecommitments(prov.signer))
          /\ Provider_signSwap(p, chan.clientData, TheLedger, quote, 0).result = "state"
          /\ Provider_checkSwap(p, chan.clientShares, TheLedger, 0).result = "state"
          /\ LoadedFresh.result = "ok" =>
                /\ LoadedFresh.self.signer = prov.signer
                /\ Provider_signSwap(LoadedFresh.self, chan.clientData,
                                     LoadedFresh.ledger, quote, 0).result = "state"
                /\ Provider_checkSwap(LoadedFresh.self, chan.clientShares,
                                      LoadedFresh.ledger, 0).result = "state"
    /\ (HasSession(cli) /\ ~IsUndefined(chan.prepared)) =>
          LET c == reset(cli)
              again == Client_prepareSwap(c, terms, PubKeys[1], PROVIDER,
                                          chan.prepared.precommitments, TheLedger, quote, 0) IN
          /\ again.result # "state"
          /\ again.self.signer.seed # cli.signer.seed
          /\ again.result = "ok" =>
                Disjoint(again.ret.precommitments, computePrecommitments(cli.signer))
          /\ Client_signSwap(c, chan.providerData, TheLedger).result = "state"

\* the provider signed in its first session and was reset: the next prepareSwap
\* opens another session, and signSwap and checkSwap are refused
C35_Witness ==
    /\ prov.state = "empty"
    /\ HasSession(prov)
    /\ ~IsUndefined(prov.transactions)
    /\ ~IsUndefined(chan.clientShares)
    /\ LET again == Provider_prepareSwap(prov, terms, PubKeys[2], CLIENT, TheLedger) IN
       /\ again.result = "ok"
       /\ again.self.signer.seed = prov.signer.seed + 1
       /\ again.ret.precommitments # prov.precommitments
    /\ Provider_checkSwap(prov, chan.clientShares, TheLedger, 0).result = "state"

\* ---------------------------------------------------------------------------
\* Finalizing a loaded swap
\* ---------------------------------------------------------------------------

\* the provider, reset, loads the signed batch it handed out
Loaded == Provider_loadSwap(reset(prov), terms, chan.signedTransactions, TheLedger, 0)

\* loadSwap succeeds only from empty and chooses the state by the escrow's
\* balance of the bought token
LoadsByBalance ==
    /\ prov.state # "empty" =>
          Provider_loadSwap(prov, terms, chan.signedTransactions, TheLedger, 0).result = "state"
    /\ Loaded.result = "ok" =>
          Loaded.self.state = IF Balance(TheLedger, ESCROW, BUY) < terms.buy.amount
                              THEN "checked" ELSE "deposited"

\* C36: loadSwap succeeds only from empty, leaves the provider in checked when
\* the escrow holds less than buy.amount of the bought token and in deposited
\* otherwise, and with the provider's funds in the escrow finalizeSwap of the
\* loaded provider is accepted.
C36_LoadedCanFinalize ==
    ~IsUndefined(chan.signedTransactions) =>
        /\ LoadsByBalance
        /\ (Loaded.result = "ok" /\ Balance(TheLedger, ESCROW, BUY) >= terms.buy.amount) =>
              Provider_finalizeSwap(Loaded.self, TheLedger, now, quote, 0).result # "state"

\* the swap is loaded with both deposits in the escrow and nothing executed:
\* the provider is in deposited and its finalizeSwap is refused by the guard
C36_Witness ==
    /\ ~IsUndefined(chan.signedTransactions)
    /\ executed = {}
    /\ BothDepositsVisible(TheLedger)
    /\ Loaded.result = "ok"
    /\ Loaded.self.state = "deposited"
    /\ Provider_finalizeSwap(Loaded.self, TheLedger, now, quote, 0).result = "state"

\* what holds of a loaded swap: the state loadSwap chooses, and finalizeSwap
\* accepted from checked
C36_FromChecked ==
    ~IsUndefined(chan.signedTransactions) =>
        /\ LoadsByBalance
        /\ (Loaded.result = "ok" /\ Loaded.self.state = "checked") =>
              Provider_finalizeSwap(Loaded.self, TheLedger, now, quote, 0).result # "state"

\* ---------------------------------------------------------------------------
\* The signatures of the batch the provider holds
\* ---------------------------------------------------------------------------

\* the signed batch with the signature of slot 3 put on slot 4
Forged == [chan.signedTransactions EXCEPT ![4].signature = chan.signedTransactions[3].signature]

LoadedForged == Provider_loadSwap(reset(prov), terms, Forged, TheLedger, 0)

\* every transaction of the batch p holds verifies against the aggregated key
AllVerified(p) == \A i \in Slots: Verified(p, i)

\* the provider's states after checkSwap, as the operations of Spec reach them
VerifiedWhereReached ==
    /\ prov.state \in {"checked", "deposited", "finalized"} => AllVerified(prov)
    /\ LET r == Provider_signedTransactions(prov, TheLedger) IN
       r.result = "ok" => (r.ret = prov.transactions /\ AllVerified(prov))

\* C37: in checked, deposited and finalized, and whenever signedTransactions()
\* returns a batch, each of the 5 transactions of the provider carries a
\* combined signature that verifies against the aggregated key, whatever
\* operations led there, loadSwap of a handed-in batch included.
C37_OnlyVerifiedBatches ==
    /\ VerifiedWhereReached
    /\ ~IsUndefined(chan.signedTransactions) =>
          (LoadedForged.result = "ok" =>
              /\ AllVerified(LoadedForged.self)
              /\ LET r == Provider_signedTransactions(LoadedForged.self, TheLedger) IN
                 r.result = "ok" => \A i \in Slots:
                     verify(prov.signer, getSignBytes(r.ret[i]), r.ret[i].signature.signature))

\* loadSwap accepts a batch whose slot 4 carries the signature of slot 3: the
\* provider is in checked or deposited and signedTransactions() returns it
C37_Witness ==
    /\ ~IsUndefined(chan.signedTransactions)
    /\ AllVerified([prov EXCEPT !.transactions = chan.signedTransactions])
    /\ LoadedForged.result = "ok"
    /\ LoadedForged.self.state \in {"checked", "deposited"}
    /\ ~Verified(LoadedForged.self, 4)
    /\ Provider_signedTransactions(LoadedForged.self, TheLedger).ret = Forged

\* without a handed-in batch the states are reached with verified batches only
C37_OwnBatches == VerifiedWhereReached

\* ---------------------------------------------------------------------------
\* Slots already executed when the provider finalizes
\* ---------------------------------------------------------------------------

\* slot i of the provider's batch is executed on the ledger
Done(i) == isTxExecuted(TheLedger, prov.transactions[i])

\* what a finalizeSwap call r of the provider hands to the ledger: none of the
\* executed slots, each of slots 0..2 not executed, and, when it submits, the
\* batch fee paid in the bought token by a transfer of the provider to itself
SubmitsOnlyPending(r) ==
    /\ \A k \in DOMAIN r.sent:
          /\ ~isTxExecuted(TheLedger, r.sent[k])
          /\ \E i \in 0..2: r.sent[k] = prov.transactions[i]
    /\ (r.result = "ok" /\ r.sent # <<>>) =>
          /\ \A i \in 0..2: ~Done(i) => \E k \in DOMAIN r.sent: r.sent[k] = prov.transactions[i]
          /\ Balance(r.ledger, PROVIDER, prov.swapData.buy.token)
                = Balance(TheLedger, PROVIDER, prov.swapData.buy.token)
                     - getTransactionsBatchFee(quote, Types(r.sent) \o <<"Transfer">>,
                                               prov.swapData.buy.token)

\* with slots 0..2 executed the call submits nothing, pays nothing and leaves
\* the provider finalized
NothingLeftToSend(r) ==
    (Done(0) /\ Done(1) /\ Done(2)) =>
        /\ r.sent = <<>>
        /\ r.ledger = TheLedger
        /\ r.result = "ok"
        /\ r.self.state = "finalized"

\* C38: finalizeSwap of a provider that holds the signed batch, before or after
\* its deposit, submits only the slots among 0, 1, 2 the ledger has not
\* executed, plus one fee-paying transfer, and with all three executed it
\* submits nothing, pays no fee and moves the provider to finalized.
C38_NoResubmission ==
    (prov.state \in {"checked", "deposited"} /\ ~IsUndefined(prov.transactions)) =>
        \A fail \in 0..2:
            LET r == Provider_finalizeSwap(prov, TheLedger, now, quote, fail) IN
            /\ SubmitsOnlyPending(r)
            /\ fail = 0 => NothingLeftToSend(r)

\* the provider deposited, the client finalized first: slots 0..2 are executed
\* and finalizeSwap is refused, the provider staying in deposited
C38_Witness ==
    /\ prov.state = "deposited"
    /\ ~IsUndefined(prov.transactions)
    /\ Done(0) /\ Done(1) /\ Done(2)
    /\ LET r == Provider_finalizeSwap(prov, TheLedger, now, quote, 0) IN
       /\ r.result = "state"
       /\ r.self.state = "deposited"
       /\ r.ledger = TheLedger

\* from checked, the only state in which finalizeSwap is accepted, the claim holds
C38_FromChecked ==
    (prov.state = "checked" /\ ~IsUndefined(prov.transactions)) =>
        \A fail \in 0..2:
            LET r == Provider_finalizeSwap(prov, TheLedger, now, quote, fail) IN
            /\ SubmitsOnlyPending(r)
            /\ fail = 0 => NothingLeftToSend(r)

\* a provider in checked finds slots 0..2 executed by the client and is
\* finalized without submitting
C38_CheckedWitness ==
    /\ prov.state = "checked"
    /\ ~IsUndefined(prov.transactions)
    /\ Done(0) /\ Done(1) /\ Done(2)
    /\ LET r == Provider_finalizeSwap(prov, TheLedger, now, quote, 0) IN
       /\ r.sent = <<>>
       /\ r.self.state = "finalized"

\* a provider in checked finds slot 0 executed and submits slots 1 and 2 only
C38_PartWitness ==
    /\ prov.state = "checked"
    /\ ~IsUndefined(prov.transactions)
    /\ Done(0) /\ ~Done(1) /\ ~Done(2)
    /\ LET r == Provider_finalizeSwap(prov, TheLedger, now, quote, 0) IN
       /\ r.result = "ok"
       /\ r.sent = <<prov.transactions[1], prov.transactions[2]>>

\* ---------------------------------------------------------------------------
\* The client's deposit and the legs the escrow pays in the sold token
\* ---------------------------------------------------------------------------

\* a client that signed the batch built on the simulated ledger
SignedOn(batch) ==
    [SwapClientNew EXCEPT !.state = "signed", !.swapData = terms, !.transactions = batch,
                          !.pubKeyHash = AggPubKeyHash,
                          !.create2Info = getCREATE2AddressAndSalt(AggPubKeyHash, terms.create2)]

\* the ledger with the client funded on both layers
ClientFunded ==
    SetBalance(SetBalance(TheLedger, CLIENT, SELL, terms.sell.amount + 3 * MaxFee),
               L1(CLIENT), SELL, terms.sell.amount + 3 * MaxFee)

\* what the client's depositFunds adds to the escrow's balance of the sold token
Deposited(depositType) ==
    Balance(Client_depositFunds(SignedOn(sim.batch), depositType, ClientFunded, quote, 0).ledger,
            ESCROW, SELL)
       - Balance(ClientFunded, ESCROW, SELL)

\* what the escrow pays in the sold token for slot i: its fee, and its amount
\* when it moves the sold token
Leg(i) ==
    sim.batch[i].fee + (IF sim.batch[i].type = "ChangePubKey" THEN 0 ELSE sim.batch[i].amount)

InSoldToken(i) == sim.batch[i].token = terms.sell.token

\* C39: for every terms and fee quote, the deposit of the client covers the legs
\* the escrow pays in the sold token on the happy path (slots 0 and 2) and on
\* the refund path (slots 0 and 3).
C39_DepositCoversBothPaths ==
    ~IsError(sim.batch) =>
        \A depositType \in {"L1", "L2"}:
            /\ InSoldToken(0) /\ InSoldToken(2) /\ InSoldToken(3)
            /\ ~InSoldToken(1) /\ ~InSoldToken(4)
            /\ Deposited(depositType) >= Leg(0) + Leg(2)
            /\ Deposited(depositType) >= Leg(0) + Leg(3)

\* withdrawType L1 with the Withdraw fee quoted below the Transfer fee: the
\* deposit pays slots 0 and 2 exactly and falls short of slots 0 and 3
C39_Witness ==
    /\ ~IsError(sim.batch)
    /\ terms.withdrawType = "L1"
    /\ quote["Withdraw"][SELL] < quote["Transfer"][SELL]
    /\ Deposited("L2") = Leg(0) + Leg(2)
    /\ Deposited("L2") < Leg(0) + Leg(3)

\* the happy path is always covered, and the refund path whenever slot 2 costs
\* at least what slot 3 costs
C39_HappyPathCovered ==
    ~IsError(sim.batch) =>
        \A depositType \in {"L1", "L2"}:
            /\ Deposited(depositType) = Leg(0) + Leg(2)
            /\ sim.batch[2].fee >= sim.batch[3].fee =>
                  Deposited(depositType) >= Leg(0) + Leg(3)
            /\ terms.withdrawType = "L2" => sim.batch[2].fee = sim.batch[3].fee

\* ---------------------------------------------------------------------------
\* One deposit of the client per attempt
\* ---------------------------------------------------------------------------

DepositTypes == {"L1", "L2"}

\* the call r of depositFunds on the ledger L submitted the transfer
Moved(r, L) == r.ledger # L

\* C40: once a depositFunds call of the client has submitted its transfer, no
\* later depositFunds call of the attempt submits another, also when the first
\* call failed while awaiting the receipt.
C40_DepositAtMostOnce ==
    cli.state = "signed" =>
        \A first \in DepositTypes, fail \in 0..2:
            LET r == Client_depositFunds(cli, first, TheLedger, quote, fail) IN
            Moved(r, TheLedger) =>
                \A second \in DepositTypes:
                    ~Moved(Client_depositFunds(r.self, second, r.ledger, quote, 0), r.ledger)

\* the L2 deposit fails at the receipt with the transfer executed, the client is
\* still in signed, and its next depositFunds, from L1, deposits again
C40_Witness ==
    /\ cli.state = "signed"
    /\ LET r == Client_depositFunds(cli, "L2", TheLedger, quote, 2)
           again == Client_depositFunds(r.self, "L1", r.ledger, quote, 0) IN
       /\ r.result = "io"
       /\ r.self.state = "signed"
       /\ Balance(r.ledger, ESCROW, SELL) = Balance(TheLedger, ESCROW, SELL) + Committed(cli)
       /\ again.result = "ok"
       /\ Balance(again.ledger, ESCROW, SELL) = Balance(TheLedger, ESCROW, SELL) + 2 * Committed(cli)

\* after a depositFunds call that returned, no later call deposits
C40_AfterSuccess ==
    cli.state = "signed" =>
        \A first \in DepositTypes:
            LET r == Client_depositFunds(cli, first, TheLedger, quote, 0) IN
            r.result = "ok" =>
                \A second \in DepositTypes:
                    LET again == Client_depositFunds(r.self, second, r.ledger, quote, 0) IN
                    again.result = "state" /\ ~Moved(again, r.ledger)

====
